---- MODULE Spec2Model ----
(***************************************************************************)
(* Inventory console (React front end): state machines of the views.       *)
(*   - Stock statement view  (frontend/src/pages/StockPage.js, StockPage)  *)
(*   - Inward / Issue batch entry dialogs (InwardPage.js, IssuePage)       *)
(*   - Item / Supplier master CSV import (ItemMaster, SupplierMaster)      *)
(*   - User management page (frontend/src/pages/UsersPage.js)              *)
(*   - Auth callback view (frontend/src/pages/AuthCallback.js)             *)
(*   - Supplier master form: country / state / city (SupplierMaster)       *)
(*   - Layout: sidebar navigation, logout (components/Layout.js, App.js)   *)
(* Every event handler runs to completion (single-threaded JS); an async   *)
(* handler is split at each await into one action per resumption.          *)
(***************************************************************************)
EXTENDS Integers, Sequences, FiniteSets, TLC

(***************************************************************************)
(* Bounds of the model                                                     *)
(***************************************************************************)
MaxFetches == 3
MaxStaged == 2
MaxRuns == 2
MaxRows == 2
MaxImports == 2
MaxCalls == 2
MaxEffects == 4
MaxLogouts == 2

(***************************************************************************)
(* Values                                                                  *)
(***************************************************************************)
Null == "null"
NoToast == "none"
Dates == {"2024-01-01", "2024-01-31"}
ItemCodes == {"A", "B"}
Paths == <<"/stock", "/inward", "/issue">>

\* what a failed call's error object carries in error.response.data.detail
Details == {"absent", "string", "object"}

\* bodies the backend can answer with (data may be null)
\* an inward or issue entry
Entry(id, c) == [entry_id |-> id, item_code |-> c]
Body(rows) == [isNull |-> FALSE, rows |-> rows]
NullBody == [isNull |-> TRUE, rows |-> <<>>]
\* a JSON value of a summary row: a number, or null
Num(v) == [null |-> FALSE, v |-> v]
NullValue == [null |-> TRUE, v |-> 0]
\* a row of the stock summary; description and rate are optional
StockRow(c, description, opening, inward, issue, rate) ==
  [item_code |-> c, item_description |-> description,
   opening_stk |-> Num(opening), inward_qty |-> Num(inward),
   issue_qty |-> Num(issue), rate |-> rate,
   closing_stk |-> Num(opening + inward - issue)]
StockA == StockRow("A", "", 5, 3, 2, NullValue)
StockB == StockRow("B", "Bolt", 0, 4, 1, Num(7))
StockBodies == {NullBody, Body(<<StockA>>), Body(<<StockA, StockB>>)}
InwardBodies == {Body(<<>>), Body(<<Entry(1, "B"), Entry(2, "A"), Entry(3, "B")>>)}
IssueBodies == {NullBody, Body(<<Entry(4, "A")>>)}
BodiesOf(i) == IF i = 1 THEN StockBodies ELSE IF i = 2 THEN InwardBodies ELSE IssueBodies

VARIABLES
  \* ---- stock statement view ----
  fromDate, toDate, loading,
  stockData, inwardEntries, issueEntries,
  expandedItemCode,
  fetch,          \* network side of the latest fetchStock run that passed its guard
  fetchCount,     \* number of fetchStock runs that reached the network
  lastOk,         \* bodies of the latest run whose Promise.all resolved
  cleared,        \* Clear was invoked and Fetch has not been invoked since
  \* ---- inward / issue page with its batch dialog ----
  view,           \* which of the two pages is mounted
  mounted,        \* FALSE once a render of the page has thrown
  isDialogOpen, tempItems, editingIndex, formData,
  runs,           \* the handleSubmit invocations that are awaiting a POST
  runCount,       \* number of handleSubmit invocations so far
  created,        \* history: creations of the staged lines (kept when track)
  \* ---- item / supplier master: CSV import ----
  csvFile,        \* the File chosen in the file input, NoFile when none
  imports,        \* the handleCSVUpload invocations that have not ended
  importCount,    \* number of handleCSVUpload invocations so far
  \* ---- user management page ----
  user,           \* the acting user, Null until GET /auth/me has answered
  me,             \* state of the GET /auth/me issued on mount
  users,          \* the list GET /users returned
  editingUser,    \* the user the dialog edits, Null when it creates
  calls,          \* create / update / delete requests awaiting an answer
  callCount,      \* number of such requests issued so far
  \* ---- auth callback view ----
  location,       \* the router's location: path and URL fragment
  hasProcessed,   \* the ref guarding the effect
  localStorage,   \* the value stored under the key 'user'
  session,        \* GET /auth/session-data: state, number issued, X-Session-ID
  effects,        \* number of times the effect has run
  \* ---- supplier master: the form of the dialog ----
  editingSupplier, \* the supplier the dialog edits, NoSupplier when it creates
  \* ---- layout: sidebar and logout ----
  isSidebarOpen,
  token,          \* the value stored under the key 'token'
  logouts,        \* number of POST /auth/logout awaiting an answer
  logoutCount,    \* number of handleLogout invocations so far
  \* ---- observation ----
  toast,          \* notification raised by the last step (NoToast if none)
  gets,           \* number of fetchEntries calls made by the last step
  lastAction      \* the handler / resumption that made the last step

stockVars == <<fromDate, toDate, loading, stockData, inwardEntries,
               issueEntries, expandedItemCode, fetch, fetchCount, lastOk,
               cleared>>
batchVars == <<view, mounted, isDialogOpen, tempItems, editingIndex, formData,
               runs, runCount, created>>
obsVars == <<toast, gets, lastAction>>
csvVars == <<csvFile, imports, importCount>>
usersVars == <<user, me, users, editingUser, calls, callCount>>
authVars == <<location, hasProcessed, localStorage, session, effects>>
supplierVars == <<editingSupplier>>
layoutVars == <<isSidebarOpen, token, logouts, logoutCount>>
pageVars == <<csvVars, usersVars, authVars, supplierVars, layoutVars>>
vars == <<stockVars, batchVars, pageVars, obsVars>>

Act(n, c, i) == [name |-> n, code |-> c, idx |-> i, was |-> ""]

(***************************************************************************)
(* Stock statement view                                                    *)
(***************************************************************************)

\* x.data || []
OrEmpty(body) == IF body.isNull THEN <<>> ELSE body.rows

\* encodeURIComponent on a YYYY-MM-DD date string leaves it unchanged
encodeURIComponent(d) == d

\* the three api.get calls handed to Promise.all
StockRequests(from, to) ==
  [i \in 1..3 |-> [path |-> Paths[i],
                   from_date |-> encodeURIComponent(from),
                   to_date |-> encodeURIComponent(to)]]

\* the message fetchStock's catch block shows
StockErrorText(detail) ==
  IF detail = "string" THEN "detail"
  ELSE IF detail = "object" THEN "JSON.stringify(detail)"
  ELSE "error.message"

NoBodies == [i \in 1..3 |-> NullBody]
NoFetch == [sent |-> <<>>, state |-> [i \in 1..3 |-> "none"],
            body |-> NoBodies, settled |-> "none", errors |-> 0]

\* csvFile === null: no file is chosen
NoFile == [header |-> <<>>, rows |-> <<>>]

\* history of creation: marks[k] is the number of POSTs that succeeded for the
\* line at position k of tempItems since it was staged there; the last `live`
\* runs iterate lines that are all still at their positions in tempItems.
\* The history is kept only when track is set.
Untracked == [track |-> FALSE, marks |-> <<>>, live |-> 0]

\* the master, user management and auth callback views are not mounted
CsvIdle ==
  /\ csvFile = NoFile
  /\ imports = <<>>
  /\ importCount = 0

UsersIdle ==
  /\ user = [user_id |-> 0, name |-> "", email |-> "", role |-> "", is_active |-> FALSE]
  /\ me = "none"
  /\ users = <<>>
  /\ editingUser = [user_id |-> 0, name |-> "", email |-> "", role |-> "", is_active |-> FALSE]
  /\ calls = <<>>
  /\ callCount = 0

AuthIdle ==
  /\ location = [path |-> "/", hash |-> ""]
  /\ hasProcessed = FALSE
  /\ localStorage = Null
  /\ session = [state |-> "none", sent |-> 0, header |-> ""]
  /\ effects = 0

\* editingSupplier === null
NoSupplier == [id |-> 0, country |-> "", state |-> "", city |-> ""]

SupplierIdle == editingSupplier = NoSupplier

LayoutIdle ==
  /\ isSidebarOpen = FALSE
  /\ token = Null
  /\ logouts = 0
  /\ logoutCount = 0

PagesIdle == CsvIdle /\ UsersIdle /\ AuthIdle /\ SupplierIdle /\ LayoutIdle

\* the inward / issue page is not part of the stock statement route
BatchIdle ==
  /\ view = "inward"
  /\ mounted = FALSE
  /\ isDialogOpen = FALSE
  /\ tempItems = <<>>
  /\ editingIndex = -1
  /\ formData = <<>>
  /\ runs = <<>>
  /\ runCount = 0
  /\ created = Untracked

InitStock ==
  /\ fromDate = ""
  /\ toDate = ""
  /\ loading = FALSE
  /\ stockData = <<>>
  /\ inwardEntries = <<>>
  /\ issueEntries = <<>>
  /\ expandedItemCode = Null
  /\ fetch = NoFetch
  /\ fetchCount = 0
  /\ lastOk = NoBodies
  /\ cleared = FALSE
  /\ BatchIdle
  /\ PagesIdle
  /\ toast = NoToast
  /\ gets = 0
  /\ lastAction = Act("init", "", 0)

setFromDate(d) ==
  /\ fromDate' = d
  /\ UNCHANGED <<toDate, loading, stockData, inwardEntries, issueEntries,
                 expandedItemCode, fetch, fetchCount, lastOk>>
  /\ toast' = NoToast
  /\ gets' = 0
  /\ lastAction' = Act("setFromDate", "", 0)
  /\ UNCHANGED <<cleared, batchVars, pageVars>>

setToDate(d) ==
  /\ toDate' = d
  /\ UNCHANGED <<fromDate, loading, stockData, inwardEntries, issueEntries,
                 expandedItemCode, fetch, fetchCount, lastOk>>
  /\ toast' = NoToast
  /\ gets' = 0
  /\ lastAction' = Act("setToDate", "", 0)
  /\ UNCHANGED <<cleared, batchVars, pageVars>>

\* fetchStock up to its await.  Requests still unanswered from an earlier run
\* whose Promise.all already rejected can no longer change anything and are
\* forgotten when the record is replaced.
fetchStock ==
  IF fromDate = "" \/ toDate = ""
  THEN /\ stockData' = <<>>
       /\ inwardEntries' = <<>>
       /\ issueEntries' = <<>>
       /\ expandedItemCode' = Null
       /\ UNCHANGED <<fromDate, toDate, loading, fetch, fetchCount, lastOk>>
  ELSE /\ loading' = TRUE
       /\ expandedItemCode' = Null
       /\ fetch' = [sent |-> StockRequests(fromDate, toDate),
                    state |-> [i \in 1..3 |-> "pending"],
                    body |-> NoBodies,
                    settled |-> "no",
                    errors |-> 0]
       /\ fetchCount' = fetchCount + 1
       /\ UNCHANGED <<fromDate, toDate, stockData, inwardEntries,
                      issueEntries, lastOk>>

\* the Fetch button (disabled={!fromDate || !toDate || loading}) and its handler
handleFetchClick ==
  /\ ~(fromDate = "" \/ toDate = "" \/ loading)
  /\ fetchCount < MaxFetches
  /\ IF fromDate = "" \/ toDate = ""
     THEN /\ toast' = "Please select both From and To dates"
          /\ gets' = 0
          /\ UNCHANGED <<fromDate, toDate, loading, stockData, inwardEntries,
                         issueEntries, expandedItemCode, fetch, fetchCount,
                         lastOk>>
     ELSE /\ fetchStock
          /\ toast' = NoToast
          /\ gets' = 0
  /\ lastAction' = Act("handleFetchClick", "", 0)
  /\ cleared' = FALSE
  /\ UNCHANGED <<batchVars, pageVars>>

fetchStockResolved_skipIssue(bd) ==
  /\ stockData' = OrEmpty(bd[1])
  /\ inwardEntries' = OrEmpty(bd[2])
  /\ UNCHANGED issueEntries
  /\ loading' = FALSE
  /\ lastOk' = bd

\* fetchStock after the await, Promise.all resolved with the three bodies bd
fetchStockResolved(bd) ==
  /\ stockData' = OrEmpty(bd[1])
  /\ inwardEntries' = OrEmpty(bd[2])
  /\ issueEntries' = OrEmpty(bd[3])
  /\ loading' = FALSE
  /\ lastOk' = bd

fetchStockRejected_keepStock(detail) ==
  /\ toast' = StockErrorText(detail)
  /\ gets' = 0
  /\ UNCHANGED stockData
  /\ inwardEntries' = <<>>
  /\ issueEntries' = <<>>
  /\ loading' = FALSE
  /\ UNCHANGED lastOk

fetchStockRejected_noFinally(detail) ==
  /\ toast' = StockErrorText(detail)
  /\ gets' = 0
  /\ stockData' = <<>>
  /\ inwardEntries' = <<>>
  /\ issueEntries' = <<>>
  /\ UNCHANGED loading
  /\ UNCHANGED lastOk

\* fetchStock after the await, Promise.all rejected: catch and finally
fetchStockRejected(detail) ==
  /\ toast' = StockErrorText(detail)
  /\ gets' = 0
  /\ stockData' = <<>>
  /\ inwardEntries' = <<>>
  /\ issueEntries' = <<>>
  /\ loading' = FALSE
  /\ UNCHANGED lastOk

\* one of the three GETs is answered; Promise.all resolves once all three are
StockResponse(i, b) ==
  /\ fetch.state[i] = "pending"
  /\ LET st == [fetch.state EXCEPT ![i] = "ok"]
         resume == fetch.settled = "no" /\ \A j \in 1..3 : st[j] = "ok"
         bd == IF fetch.settled = "no" THEN [fetch.body EXCEPT ![i] = b]
               ELSE fetch.body
     IN /\ fetch' = [fetch EXCEPT !.state = st, !.body = bd,
                       !.settled = IF resume THEN "ok" ELSE @]
        /\ IF resume
           THEN /\ fetchStockResolved(bd)
                /\ lastAction' = Act("fetchStockResolved", "", 0)
           ELSE /\ UNCHANGED <<stockData, inwardEntries, issueEntries,
                               loading, lastOk>>
                /\ lastAction' = Act("response", "", 0)
  /\ toast' = NoToast
  /\ gets' = 0
  /\ UNCHANGED <<fromDate, toDate, expandedItemCode, fetchCount, cleared,
                 batchVars, pageVars>>

\* one of the three GETs fails; Promise.all rejects on the first failure, a
\* later failure of the same run reaches nobody
StockFailure(i, detail) ==
  /\ fetch.state[i] = "pending"
  /\ LET resume == fetch.settled = "no"
     IN /\ fetch' = [fetch EXCEPT !.state[i] = "failed",
                       !.body = IF resume THEN NoBodies ELSE @,
                       !.settled = IF resume THEN "failed" ELSE @,
                       !.errors = IF resume THEN @ + 1 ELSE @]
        /\ IF resume
           THEN /\ fetchStockRejected(detail)
                /\ lastAction' = Act("fetchStockRejected", detail, 0)
           ELSE /\ toast' = NoToast
                /\ gets' = 0
                /\ UNCHANGED <<stockData, inwardEntries, issueEntries,
                               loading, lastOk>>
                /\ lastAction' = Act("failure", "", 0)
  /\ UNCHANGED <<fromDate, toDate, expandedItemCode, fetchCount, cleared,
                 batchVars, pageVars>>

handleClear ==
  /\ fromDate' = ""
  /\ toDate' = ""
  /\ stockData' = <<>>
  /\ inwardEntries' = <<>>
  /\ issueEntries' = <<>>
  /\ expandedItemCode' = Null
  /\ UNCHANGED <<loading, fetch, fetchCount, lastOk>>
  /\ toast' = NoToast
  /\ gets' = 0
  /\ lastAction' = Act("handleClear", "", 0)
  /\ cleared' = TRUE
  /\ UNCHANGED <<batchVars, pageVars>>

toggleExpand_noCollapse(itemCode) ==
  /\ \E k \in 1..Len(stockData) : stockData[k].item_code = itemCode
  /\ expandedItemCode' = itemCode
  /\ UNCHANGED <<fromDate, toDate, loading, stockData, inwardEntries,
                 issueEntries, fetch, fetchCount, lastOk>>
  /\ toast' = NoToast
  /\ gets' = 0
  /\ lastAction' = [Act("toggleExpand", itemCode, 0) EXCEPT !.was = expandedItemCode]
  /\ UNCHANGED <<cleared, batchVars, pageVars>>

\* the expand button exists once per row of stockData
toggleExpand(itemCode) ==
  /\ \E k \in 1..Len(stockData) : stockData[k].item_code = itemCode
  /\ expandedItemCode' = IF expandedItemCode = itemCode THEN Null ELSE itemCode
  /\ UNCHANGED <<fromDate, toDate, loading, stockData, inwardEntries,
                 issueEntries, fetch, fetchCount, lastOk>>
  /\ toast' = NoToast
  /\ gets' = 0
  /\ lastAction' = [Act("toggleExpand", itemCode, 0) EXCEPT !.was = expandedItemCode]
  /\ UNCHANGED <<cleared, batchVars, pageVars>>

\* const isExpanded = expandedItemCode === stock.item_code
isExpanded(stock) == expandedItemCode = stock.item_code

getInwardForItem_all(itemCode) == inwardEntries

\* inwardEntries.filter((e) => e.item_code === itemCode)
getInwardForItem(itemCode) ==
  SelectSeq(inwardEntries, LAMBDA e : e.item_code = itemCode)

\* issueEntries.filter((e) => e.item_code === itemCode)
getIssueForItem(itemCode) ==
  SelectSeq(issueEntries, LAMBDA e : e.item_code = itemCode)

\* the detail rows the render puts below the summary rows: for each row that
\* is expanded, the entries listed under "Inward Entries" and "Issue Entries"
DetailRows ==
  [k \in {j \in 1..Len(stockData) : isExpanded(stockData[j])} |->
     [itemInwards |-> getInwardForItem(stockData[k].item_code),
      itemIssues |-> getIssueForItem(stockData[k].item_code)]]

\* format(parseISO(iso), 'dd/MM/yyyy'), '' for an empty value
toDDMMYYYY(iso) ==
  CASE iso = "" -> ""
    [] iso = "2024-01-01" -> "01/01/2024"
    [] iso = "2024-01-31" -> "31/01/2024"

\* the heading of the statement card (the dash stands for the em dash)
Heading ==
  IF fromDate # "" /\ toDate # ""
  THEN "Stock Statement (Item-wise Summary) - " \o toDDMMYYYY(fromDate)
       \o " to " \o toDDMMYYYY(toDate)
  ELSE "Stock Statement (Item-wise Summary)"

\* `stock-statement_${fromDate}_to_${toDate}` plus the extension
ExportFileName(ext) == "stock-statement_" \o fromDate \o "_to_" \o toDate \o ext

\* Number(x): null becomes 0
Number(x) == IF x.null THEN 0 ELSE x.v

\* a cell of the exported table that holds a number, and the empty cell ''
Cell(v) == [blank |-> FALSE, v |-> v]
BlankCell == [blank |-> TRUE, v |-> 0]

getExportRows_rateAsNumber ==
  [k \in 1..Len(stockData) |->
     LET s == stockData[k]
     IN [StartDate |-> toDDMMYYYY(fromDate),
         EndDate |-> toDDMMYYYY(toDate),
         ItemCode |-> s.item_code,
         ItemName |-> IF s.item_description # "" THEN s.item_description
                      ELSE s.item_code,
         OpeningStock |-> Cell(Number(s.opening_stk)),
         InwardQty |-> Cell(Number(s.inward_qty)),
         IssueQty |-> Cell(Number(s.issue_qty)),
         Rate |-> Cell(Number(s.rate)),
         ClosingStock |-> Cell(Number(s.closing_stk))]]

getExportRows ==
  [k \in 1..Len(stockData) |->
     LET s == stockData[k]
     IN [StartDate |-> toDDMMYYYY(fromDate),
         EndDate |-> toDDMMYYYY(toDate),
         ItemCode |-> s.item_code,
         ItemName |-> IF s.item_description # "" THEN s.item_description
                      ELSE s.item_code,
         OpeningStock |-> Cell(Number(s.opening_stk)),
         InwardQty |-> Cell(Number(s.inward_qty)),
         IssueQty |-> Cell(Number(s.issue_qty)),
         Rate |-> IF ~s.rate.null THEN Cell(Number(s.rate)) ELSE BlankCell,
         ClosingStock |-> Cell(Number(s.closing_stk))]]

\* what is recorded of an export: the name of the file and the table
\* (one entry per row, <<>> when no file is produced)
Exported(name, file, table) ==
  [name |-> name, code |-> file, idx |-> Len(table), was |-> "", table |-> table]

\* the body of both download handlers; ext is the file extension
Download(name, ext, done) ==
  /\ IF Len(stockData) = 0
     THEN /\ toast' = "No data to export. Fetch a stock statement first."
          /\ lastAction' = Exported(name, "", <<>>)
     ELSE /\ toast' = done
          /\ lastAction' = Exported(name, ExportFileName(ext), getExportRows)
  /\ gets' = 0
  /\ UNCHANGED <<stockVars, batchVars, pageVars>>

\* CSV button, disabled={!stockData.length}
handleDownloadCSV ==
  /\ Len(stockData) # 0
  /\ Download("handleDownloadCSV", ".csv", "CSV downloaded")

\* Excel button, disabled={!stockData.length}
handleDownloadExcel ==
  /\ Len(stockData) # 0
  /\ Download("handleDownloadExcel", ".xlsx", "Excel file downloaded")

NextStock ==
  \/ \E d \in Dates \cup {""} : setFromDate(d)
  \/ \E d \in Dates \cup {""} : setToDate(d)
  \/ handleFetchClick
  \/ \E i \in 1..3 : \E b \in BodiesOf(i) : StockResponse(i, b)
  \/ \E i \in 1..3 : \E d \in Details : StockFailure(i, d)
  \/ handleClear
  \/ \E c \in ItemCodes : toggleExpand(c)
  \/ handleDownloadCSV
  \/ handleDownloadExcel

SpecStock == InitStock /\ [][NextStock]_vars

(***************************************************************************)
(* Inward page and Issue page: batch dialog with its staging list          *)
(***************************************************************************)
Views == {"inward", "issue"}
Today == "today"
NullIndex == -1     \* editingIndex === null; indices are zero-based as in JS
Hole == [kind |-> "hole"]            \* array slot that was never assigned
Undefined == [kind |-> "undefined"]  \* array slot holding undefined
FillAllFields == "Please fill all fields"

Fields(v) ==
  IF v = "inward"
  THEN {"date", "item_code", "inward_qty", "inward_rate", "supplier", "ref_no"}
  ELSE {"date", "item_code", "issued_qty"}

\* <Input ... required /> of the form: the browser does not dispatch the
\* submit event while one of them is empty
NativeRequired(v) ==
  IF v = "inward" THEN {"date", "inward_qty", "inward_rate", "ref_no"}
  ELSE {"date", "issued_qty"}

\* the fields handleAddItem tests
HandlerChecked(v) ==
  IF v = "inward"
  THEN {"item_code", "inward_qty", "inward_rate", "supplier", "ref_no"}
  ELSE {"item_code", "issued_qty"}

\* values the controls can put into a field
Inputs(f) ==
  IF f = "date" THEN {"", Today}
  ELSE IF f = "item_code" THEN ItemCodes
  ELSE IF f = "supplier" THEN {"S1"}
  ELSE {"", "1"}

\* the object resetForm installs
BlankForm(v) == [f \in Fields(v) |-> IF f = "date" THEN Today ELSE ""]

\* [...a]: holes are read as undefined
Spread(a) == [k \in 1..Len(a) |-> IF a[k] = Hole THEN Undefined ELSE a[k]]

\* a[index] = x, extending the array with holes when index >= a.length
SetIndex(a, index, x) ==
  [k \in 1..(IF index + 1 > Len(a) THEN index + 1 ELSE Len(a)) |->
     IF k = index + 1 THEN x ELSE IF k <= Len(a) THEN a[k] ELSE Hole]

\* a.filter((_, i) => i !== index): holes are not visited
RECURSIVE FilterFrom(_, _, _)
FilterFrom(a, index, k) ==
  IF k > Len(a) THEN <<>>
  ELSE (IF k - 1 # index /\ a[k] # Hole THEN <<a[k]>> ELSE <<>>)
       \o FilterFrom(a, index, k + 1)
FilterNotIndex(a, index) == FilterFrom(a, index, 1)

\* tempItems.map((item, index) => ... item.date ...) throws on an undefined
\* element; nothing catches it, so the page is unmounted
RenderThrows(open, items) == open /\ \E k \in 1..Len(items) : items[k] = Undefined

\* the message handleSubmit's catch block shows
SubmitErrorText(detail) == IF detail = "string" THEN "detail" ELSE "Operation failed"

\* a handleSubmit invocation that is awaiting a POST: the tempItems it
\* iterates, the number of POSTs it has issued and of POSTs that succeeded
NewRun(items) == [items |-> items, sent |-> 0, ok |-> 0]

\* sequence a without its r-th element
Without(a, r) == [k \in 1..(Len(a) - 1) |-> IF k < r THEN a[k] ELSE a[k + 1]]

\* what is recorded of a handleSubmit invocation when it ends
Ended(name, run, errors) ==
  [name |-> name, code |-> "", idx |-> Len(run.items), was |-> "",
   sent |-> run.sent, ok |-> run.ok, errors |-> errors]

\* the stock statement view is not part of the inward / issue routes
StockIdle ==
  /\ fromDate = ""
  /\ toDate = ""
  /\ loading = FALSE
  /\ stockData = <<>>
  /\ inwardEntries = <<>>
  /\ issueEntries = <<>>
  /\ expandedItemCode = Null
  /\ fetch = NoFetch
  /\ fetchCount = 0
  /\ lastOk = NoBodies
  /\ cleared = FALSE

\* the page after its first render, with history h
InitDialog(h) ==
  /\ view \in Views
  /\ mounted = TRUE
  /\ isDialogOpen = FALSE
  /\ tempItems = <<>>
  /\ editingIndex = NullIndex
  /\ formData = BlankForm(view)
  /\ runs = <<>>
  /\ runCount = 0
  /\ created = h
  /\ StockIdle
  /\ PagesIdle
  /\ toast = NoToast
  /\ gets = 0
  /\ lastAction = Act("init", "", 0)

InitBatch == InitDialog(Untracked)

\* the Issue page, keeping the history of creation
InitTracked ==
  /\ InitDialog([Untracked EXCEPT !.track = TRUE])
  /\ view = "issue"

\* run r iterates lines that are all still at their positions in tempItems
IsLive(r) == r > Len(runs) - created.live

\* the history after a line was appended to tempItems
Appended ==
  IF created.track THEN [created EXCEPT !.marks = Append(@, 0)] ELSE created

\* the history after tempItems[index] was assigned a new line; n is the new
\* length of tempItems
Updated(index, n) ==
  IF created.track
  THEN [created EXCEPT
          !.marks = [k \in 1..n |->
                       IF k = index + 1 THEN 0
                       ELSE IF k <= Len(created.marks) THEN created.marks[k]
                       ELSE 0],
          !.live = 0]
  ELSE created

\* the history after a.filter((_, i) => i !== index) replaced tempItems = a
Deleted(a, index) ==
  IF created.track
  THEN LET K == {k \in 1..Len(a) : k - 1 # index /\ a[k] # Hole}
       IN [created EXCEPT
             !.marks = [i \in 1..Cardinality(K) |->
                          created.marks[CHOOSE k \in K :
                                          Cardinality({x \in K : x < k}) = i - 1]],
             !.live = 0]
  ELSE created

\* the history after tempItems was emptied
Cleared ==
  IF created.track THEN [created EXCEPT !.marks = <<>>, !.live = 0] ELSE created

\* "Add Inward" / "Add Issue" button: resetForm(); setIsDialogOpen(true)
openDialog ==
  /\ mounted /\ ~isDialogOpen
  /\ formData' = BlankForm(view)
  /\ isDialogOpen' = TRUE
  /\ UNCHANGED <<view, created, mounted, tempItems, editingIndex, runs, runCount>>
  /\ UNCHANGED <<stockVars, pageVars>>
  /\ toast' = NoToast
  /\ gets' = 0
  /\ lastAction' = Act("openDialog", "", 0)

\* onChange / onValueChange of a control: setFormData({ ...formData, f: value })
setField(f, value) ==
  /\ mounted /\ isDialogOpen
  /\ formData' = [formData EXCEPT ![f] = value]
  /\ UNCHANGED <<view, created, mounted, isDialogOpen, tempItems, editingIndex, runs,
                 runCount>>
  /\ UNCHANGED <<stockVars, pageVars>>
  /\ toast' = NoToast
  /\ gets' = 0
  /\ lastAction' = Act("setField", "", 0)

handleAddItem_alwaysAppend ==
  IF \E f \in HandlerChecked(view) : formData[f] = ""
  THEN /\ toast' = FillAllFields
       /\ gets' = 0
       /\ UNCHANGED <<view, created, mounted, isDialogOpen, tempItems, editingIndex,
                      formData, runs, runCount>>
       /\ lastAction' = Act("handleAddItem", "rejected", editingIndex)
  ELSE /\ tempItems' = Spread(tempItems) \o <<formData>>
       /\ created' = Appended
       /\ editingIndex' = NullIndex
       /\ toast' = "Item added to list"
       /\ gets' = 0
       /\ lastAction' = Act("handleAddItem",
                             IF editingIndex # NullIndex THEN "update" ELSE "append",
                             editingIndex)
       /\ formData' = BlankForm(view)
       /\ mounted' = ~RenderThrows(isDialogOpen, tempItems')
       /\ UNCHANGED <<view, isDialogOpen, runs, runCount>>

\* handleAddItem, run on the form's submit event
handleAddItem ==
  IF \E f \in HandlerChecked(view) : formData[f] = ""
  THEN /\ toast' = FillAllFields
       /\ gets' = 0
       /\ UNCHANGED <<view, created, mounted, isDialogOpen, tempItems, editingIndex,
                      formData, runs, runCount>>
       /\ lastAction' = Act("handleAddItem", "rejected", editingIndex)
  ELSE /\ IF editingIndex # NullIndex
          THEN /\ tempItems' = SetIndex(Spread(tempItems), editingIndex, formData)
               /\ created' = Updated(editingIndex, Len(tempItems'))
               /\ editingIndex' = NullIndex
               /\ toast' = "Item updated"
               /\ gets' = 0
               /\ lastAction' = Act("handleAddItem", "update", editingIndex)
          ELSE /\ tempItems' = Spread(tempItems) \o <<formData>>
               /\ created' = Appended
               /\ UNCHANGED editingIndex
               /\ toast' = "Item added to list"
               /\ gets' = 0
               /\ lastAction' = Act("handleAddItem", "append", editingIndex)
       /\ formData' = BlankForm(view)
       /\ mounted' = ~RenderThrows(isDialogOpen, tempItems')
       /\ UNCHANGED <<view, isDialogOpen, runs, runCount>>

\* the "Add Item" / "Update Item" submit button of the form
submitForm ==
  /\ mounted /\ isDialogOpen
  /\ editingIndex = NullIndex => Len(tempItems) < MaxStaged
  /\ IF \E f \in NativeRequired(view) : formData[f] = ""
     THEN /\ UNCHANGED <<batchVars, pageVars>>
          /\ toast' = NoToast
          /\ gets' = 0
          /\ lastAction' = Act("submitBlocked", "", editingIndex)
     ELSE handleAddItem
  /\ UNCHANGED <<stockVars, pageVars>>

\* the edit button of a rendered row
handleEditItem(index) ==
  /\ mounted /\ isDialogOpen
  /\ index < Len(tempItems) /\ tempItems[index + 1] # Hole
  /\ formData' = tempItems[index + 1]
  /\ editingIndex' = index
  /\ UNCHANGED <<view, created, mounted, isDialogOpen, tempItems, runs, runCount>>
  /\ UNCHANGED <<stockVars, pageVars>>
  /\ toast' = NoToast
  /\ gets' = 0
  /\ lastAction' = Act("handleEditItem", "", index)

handleDeleteItem_keepMarker(index) ==
  /\ mounted /\ isDialogOpen
  /\ index < Len(tempItems) /\ tempItems[index + 1] # Hole
  /\ tempItems' = FilterNotIndex(tempItems, index)
  /\ created' = Deleted(tempItems, index)
  /\ UNCHANGED <<editingIndex, formData>>
  /\ UNCHANGED <<view, mounted, isDialogOpen, runs, runCount>>
  /\ UNCHANGED <<stockVars, pageVars>>
  /\ toast' = "Item removed"
  /\ gets' = 0
  /\ lastAction' = Act("handleDeleteItem",
                        IF editingIndex = index THEN "edited" ELSE "other", index)

\* the delete button of a rendered row
handleDeleteItem(index) ==
  /\ mounted /\ isDialogOpen
  /\ index < Len(tempItems) /\ tempItems[index + 1] # Hole
  /\ tempItems' = FilterNotIndex(tempItems, index)
  /\ created' = Deleted(tempItems, index)
  /\ IF editingIndex = index
     THEN /\ editingIndex' = NullIndex
          /\ formData' = BlankForm(view)
     ELSE UNCHANGED <<editingIndex, formData>>
  /\ UNCHANGED <<view, mounted, isDialogOpen, runs, runCount>>
  /\ UNCHANGED <<stockVars, pageVars>>
  /\ toast' = "Item removed"
  /\ gets' = 0
  /\ lastAction' = Act("handleDeleteItem",
                        IF editingIndex = index THEN "edited" ELSE "other", index)

\* "Cancel Edit" button, rendered while editingIndex !== null
cancelEdit ==
  /\ mounted /\ isDialogOpen
  /\ editingIndex # NullIndex
  /\ editingIndex' = NullIndex
  /\ formData' = BlankForm(view)
  /\ UNCHANGED <<view, created, mounted, isDialogOpen, tempItems, runs, runCount>>
  /\ UNCHANGED <<stockVars, pageVars>>
  /\ toast' = NoToast
  /\ gets' = 0
  /\ lastAction' = Act("cancelEdit", "", 0)

\* "Cancel" button of the dialog footer: setIsDialogOpen(false)
cancelDialog ==
  /\ mounted /\ isDialogOpen
  /\ isDialogOpen' = FALSE
  /\ UNCHANGED <<view, created, mounted, tempItems, editingIndex, formData, runs,
                 runCount>>
  /\ UNCHANGED <<stockVars, pageVars>>
  /\ toast' = NoToast
  /\ gets' = 0
  /\ lastAction' = Act("cancelDialog", "", 0)

\* the dialog is dismissed (close icon, Escape, click outside): onOpenChange(false)
dismissDialog ==
  /\ mounted /\ isDialogOpen
  /\ isDialogOpen' = FALSE
  /\ tempItems' = <<>>
  /\ created' = Cleared
  /\ editingIndex' = NullIndex
  /\ formData' = BlankForm(view)
  /\ UNCHANGED <<view, mounted, runs, runCount>>
  /\ UNCHANGED <<stockVars, pageVars>>
  /\ toast' = NoToast
  /\ gets' = 0
  /\ lastAction' = Act("dismissDialog", "", 0)

handleSubmitLoop_keepList(rs, r) ==
  LET run == rs[r]
  IN IF run.ok = Len(run.items)
     THEN /\ runs' = Without(rs, r)
          /\ toast' = "All entries created successfully"
          /\ IF mounted
             THEN /\ formData' = BlankForm(view)
                  /\ isDialogOpen' = FALSE
                  /\ UNCHANGED tempItems
             ELSE UNCHANGED <<formData, tempItems, isDialogOpen>>
          /\ gets' = 1
          /\ lastAction' = Ended("handleSubmitDone", run, 0)
     ELSE IF run.items[run.ok + 1] \in {Hole, Undefined}
     THEN /\ runs' = Without(rs, r)
          /\ toast' = SubmitErrorText("absent")
          /\ gets' = 0
          /\ UNCHANGED <<formData, tempItems, isDialogOpen>>
          /\ lastAction' = Ended("handleSubmitFailed", run, 1)
     ELSE /\ runs' = [rs EXCEPT ![r].sent = @ + 1]
          /\ toast' = NoToast
          /\ gets' = 0
          /\ UNCHANGED <<formData, tempItems, isDialogOpen>>
          /\ lastAction' = Act("post", "", run.ok + 1)

\* handleSubmit from the top of a loop iteration to its next await or to its
\* end; rs is runs with run r as it stands after the previous await.
\* State setters of an unmounted page have no effect.
handleSubmitLoop(rs, r) ==
  LET run == rs[r]
  IN IF run.ok = Len(run.items)
     THEN \* loop finished
          /\ runs' = Without(rs, r)
          /\ toast' = "All entries created successfully"
          /\ IF mounted
             THEN /\ formData' = BlankForm(view)
                  /\ tempItems' = <<>>
                  /\ isDialogOpen' = FALSE
             ELSE UNCHANGED <<formData, tempItems, isDialogOpen>>
          /\ gets' = 1
          /\ lastAction' = Ended("handleSubmitDone", run, 0)
     ELSE IF run.items[run.ok + 1] \in {Hole, Undefined}
     THEN \* item.date throws a TypeError inside the try block
          /\ runs' = Without(rs, r)
          /\ toast' = SubmitErrorText("absent")
          /\ gets' = 0
          /\ UNCHANGED <<formData, tempItems, isDialogOpen>>
          /\ lastAction' = Ended("handleSubmitFailed", run, 1)
     ELSE \* await api.post(...)
          /\ runs' = [rs EXCEPT ![r].sent = @ + 1]
          /\ toast' = NoToast
          /\ gets' = 0
          /\ UNCHANGED <<formData, tempItems, isDialogOpen>>
          /\ lastAction' = Act("post", "", run.ok + 1)

\* "Save All Items" button (disabled={tempItems.length === 0}) and handleSubmit
\* up to its first await
handleSubmit ==
  /\ mounted /\ isDialogOpen
  /\ Len(tempItems) # 0
  /\ runCount < MaxRuns
  /\ runCount' = runCount + 1
  /\ IF Len(tempItems) = 0
     THEN /\ toast' = "Please add at least one item"
          /\ gets' = 0
          /\ UNCHANGED <<formData, tempItems, isDialogOpen, runs>>
          /\ lastAction' = Act("handleSubmit", "rejected", 0)
     ELSE handleSubmitLoop(Append(runs, NewRun(tempItems)), Len(runs) + 1)
  /\ created' = IF created.track /\ Len(runs') > Len(runs)
                THEN [created EXCEPT !.live = @ + 1] ELSE created
  /\ UNCHANGED <<view, mounted, editingIndex>>
  /\ UNCHANGED <<stockVars, pageVars>>

\* the POST a run awaits succeeds: the backend has created line number sent
PostResponse(r) ==
  /\ handleSubmitLoop([runs EXCEPT ![r].ok = @ + 1], r)
  /\ created' =
       IF ~created.track THEN created
       ELSE IF lastAction'.name = "handleSubmitDone" /\ mounted THEN Cleared
       ELSE [created EXCEPT
               !.marks = IF IsLive(r)
                         THEN [@ EXCEPT ![runs[r].ok + 1] = IF @ < 2 THEN @ + 1 ELSE @]
                         ELSE @,
               !.live = IF Len(runs') < Len(runs) /\ IsLive(r) THEN @ - 1 ELSE @]
  /\ UNCHANGED <<view, mounted, editingIndex, runCount>>
  /\ UNCHANGED <<stockVars, pageVars>>

handleSubmitCatch_keepGoing(r, detail) ==
  /\ runs' = [runs EXCEPT ![r].sent = @ + 1]
  /\ toast' = SubmitErrorText(detail)
  /\ gets' = 0
  /\ UNCHANGED <<isDialogOpen, tempItems, formData>>
  /\ lastAction' = Act("post", "", runs[r].sent + 1)

\* handleSubmit's catch block after the awaited POST of run r was rejected
handleSubmitCatch(r, detail) ==
  /\ runs' = Without(runs, r)
  /\ toast' = SubmitErrorText(detail)
  /\ gets' = 0
  /\ UNCHANGED <<isDialogOpen, tempItems, formData>>
  /\ lastAction' = Ended("handleSubmitFailed", runs[r], 1)

\* the POST a run awaits fails
PostFailure(r, detail) ==
  /\ handleSubmitCatch(r, detail)
  /\ created' = IF created.track /\ Len(runs') < Len(runs) /\ IsLive(r)
                THEN [created EXCEPT !.live = @ - 1] ELSE created
  /\ UNCHANGED <<view, mounted, editingIndex, runCount>>
  /\ UNCHANGED <<stockVars, pageVars>>

NextBatch ==
  \/ openDialog
  \/ \E f \in Fields(view) : \E x \in Inputs(f) : setField(f, x)
  \/ submitForm
  \/ \E index \in 0..(MaxStaged - 1) : handleEditItem(index)
  \/ \E index \in 0..(MaxStaged - 1) : handleDeleteItem(index)
  \/ cancelEdit
  \/ cancelDialog
  \/ dismissDialog
  \/ handleSubmit
  \/ \E r \in 1..Len(runs) : PostResponse(r)
  \/ \E r \in 1..Len(runs) : \E d \in Details : PostFailure(r, d)

SpecBatch == InitBatch /\ [][NextBatch]_vars

SpecTracked == InitTracked /\ [][NextBatch]_vars

(***************************************************************************)
(* Item master and Supplier master: CSV import                             *)
(***************************************************************************)
MasterViews == {"items", "suppliers"}

Range(s) == {s[k] : k \in 1..Len(s)}

RECURSIVE Join(_)
\* Array.prototype.join(', ')
Join(s) ==
  IF s = <<>> THEN ""
  ELSE IF Len(s) = 1 THEN s[1]
  ELSE s[1] \o ", " \o Join(Tail(s))

ItemRequiredHeaders == <<"item_code", "item_name", "category", "uom", "item_rate">>
SupplierRequiredHeaders ==
  <<"supplier_name", "contact_person", "email", "phone", "country", "state", "city">>
requiredHeaders(v) ==
  IF v = "items" THEN ItemRequiredHeaders ELSE SupplierRequiredHeaders

\* header rows a chosen file can have: all required columns, the last one
\* absent, the first one absent
HeaderRows(v) ==
  LET req == requiredHeaders(v)
  IN {req, SubSeq(req, 1, Len(req) - 1), SubSeq(req, 2, Len(req))}

\* a data row holds a field for every column, or stops one field short
RowKinds == {"full", "short"}
RowsUpTo(n) == UNION {[1..k -> RowKinds] : k \in 0..n}
CsvFiles(v) == {[header |-> h, rows |-> r] : h \in HeaderRows(v), r \in RowsUpTo(MaxRows)}
HasAllRequired(v, file) == Range(requiredHeaders(v)) \subseteq Range(file.header)

\* Papa.parse with header: true: results.data holds one object per data row,
\* keyed by the header names of the fields the row has
ParsedRow(h, kind) ==
  {h[j] : j \in 1..(IF kind = "full" THEN Len(h) ELSE Len(h) - 1)}
Parse(file) == [k \in 1..Len(file.rows) |-> ParsedRow(file.header, file.rows[k])]

\* Object.keys(rows[0] || {})
fileHeaders(rows) == IF rows = <<>> THEN {} ELSE rows[1]
\* requiredHeaders.filter(h => !fileHeaders.includes(h))
missingHeaders(v, rows) ==
  SelectSeq(requiredHeaders(v), LAMBDA h : h \notin fileHeaders(rows))
MissingHeadersText(missing) == "Missing headers: " \o Join(missing)

CsvSuccessText(v) ==
  IF v = "items" THEN "CSV items imported successfully"
  ELSE "CSV suppliers imported successfully"
CsvErrorText(v) ==
  IF v = "items" THEN "Error importing CSV items"
  ELSE "Error importing CSV suppliers"
CsvPath(v) == IF v = "items" THEN "/items" ELSE "/suppliers"

\* what is recorded of a step of an import: the POST it issued (idx, 0 when
\* none), the POSTs issued and answered successfully so far, and how the
\* import ended with this step ("none" while it goes on)
CsvStep(name, file, missing, posted, sent, ok, end) ==
  [name |-> name, code |-> CsvPath(view), idx |-> posted, was |-> "",
   file |-> file, missing |-> missing, sent |-> sent, ok |-> ok, end |-> end]

\* no batch dialog on this page
NoBatch ==
  /\ mounted = TRUE
  /\ isDialogOpen = FALSE
  /\ tempItems = <<>>
  /\ editingIndex = NullIndex
  /\ formData = <<>>
  /\ runs = <<>>
  /\ runCount = 0
  /\ created = Untracked

InitCsv ==
  /\ view \in MasterViews
  /\ NoBatch
  /\ StockIdle
  /\ SupplierIdle
  /\ LayoutIdle
  /\ CsvIdle
  /\ UsersIdle
  /\ AuthIdle
  /\ toast = NoToast
  /\ gets = 0
  /\ lastAction = Act("init", "", 0)

\* onChange of the file input: setCsvFile(e.target.files[0]); files[0] is
\* undefined, which the page treats as null, when the picker is left
\* without a file
setCsvFile(f) ==
  /\ csvFile' = f
  /\ UNCHANGED <<imports, importCount>>
  /\ toast' = NoToast
  /\ gets' = 0
  /\ lastAction' = Act("setCsvFile", "", 0)
  /\ UNCHANGED <<supplierVars, layoutVars, stockVars, batchVars, usersVars, authVars>>

\* Import button (disabled while no file is chosen): the handler hands the
\* file to Papa.parse and returns
handleCSVUpload ==
  /\ csvFile # NoFile
  /\ importCount < MaxImports
  /\ imports' = Append(imports, [file |-> csvFile, phase |-> "parsing", sent |-> 0])
  /\ importCount' = importCount + 1
  /\ UNCHANGED csvFile
  /\ toast' = NoToast
  /\ gets' = 0
  /\ lastAction' = Act("handleCSVUpload", "", 0)
  /\ UNCHANGED <<supplierVars, layoutVars, stockVars, batchVars, usersVars, authVars>>

\* the complete callback of import r
complete(r) ==
  /\ imports[r].phase = "parsing"
  /\ LET file == imports[r].file
         rows == Parse(file)
         missing == missingHeaders(view, rows)
     IN IF Len(missing) > 0
        THEN /\ toast' = MissingHeadersText(missing)
             /\ imports' = Without(imports, r)
             /\ gets' = 0
             /\ UNCHANGED csvFile
             /\ lastAction' = CsvStep("complete", file, missing, 0, 0, 0, "missing")
        ELSE IF rows = <<>>
        THEN /\ toast' = CsvSuccessText(view)
             /\ imports' = Without(imports, r)
             /\ csvFile' = NoFile
             /\ gets' = 1
             /\ lastAction' = CsvStep("complete", file, missing, 0, 0, 0, "done")
        ELSE \* await api.post(...) for the first row
             /\ toast' = NoToast
             /\ imports' = [imports EXCEPT ![r].phase = "posting", ![r].sent = 1]
             /\ gets' = 0
             /\ UNCHANGED csvFile
             /\ lastAction' = CsvStep("complete", file, missing, 1, 1, 0, "none")
  /\ UNCHANGED importCount
  /\ UNCHANGED <<supplierVars, layoutVars, stockVars, batchVars, usersVars, authVars>>

\* the error callback of import r: the file could not be read
parseError(r) ==
  /\ imports[r].phase = "parsing"
  /\ toast' = "Failed to parse CSV file"
  /\ imports' = Without(imports, r)
  /\ gets' = 0
  /\ UNCHANGED <<csvFile, importCount>>
  /\ lastAction' = CsvStep("parseError", imports[r].file, <<>>, 0, 0, 0, "parseError")
  /\ UNCHANGED <<supplierVars, layoutVars, stockVars, batchVars, usersVars, authVars>>

\* the awaited POST of import r succeeded: the loop goes on with the next
\* row, or ends
CsvPostResponse(r) ==
  /\ imports[r].phase = "posting"
  /\ LET file == imports[r].file
         sent == imports[r].sent
     IN IF sent < Len(file.rows)
        THEN /\ toast' = NoToast
             /\ imports' = [imports EXCEPT ![r].sent = sent + 1]
             /\ gets' = 0
             /\ UNCHANGED csvFile
             /\ lastAction' = CsvStep("csvPosted", file, <<>>, sent + 1, sent + 1, sent, "none")
        ELSE /\ toast' = CsvSuccessText(view)
             /\ imports' = Without(imports, r)
             /\ csvFile' = NoFile
             /\ gets' = 1
             /\ lastAction' = CsvStep("csvPosted", file, <<>>, 0, sent, sent, "done")
  /\ UNCHANGED importCount
  /\ UNCHANGED <<supplierVars, layoutVars, stockVars, batchVars, usersVars, authVars>>

\* the awaited POST of import r was rejected: catch { toast.error(...) }
CsvPostFailure(r, detail) ==
  /\ imports[r].phase = "posting"
  /\ toast' = CsvErrorText(view)
  /\ imports' = Without(imports, r)
  /\ gets' = 0
  /\ UNCHANGED <<csvFile, importCount>>
  /\ lastAction' = CsvStep("csvRejected", imports[r].file, <<>>, 0,
                           imports[r].sent, imports[r].sent - 1, "failed")
  /\ UNCHANGED <<supplierVars, layoutVars, stockVars, batchVars, usersVars, authVars>>

NextCsv ==
  \/ \E f \in CsvFiles(view) \cup {NoFile} : setCsvFile(f)
  \/ handleCSVUpload
  \/ \E r \in 1..Len(imports) : complete(r)
  \/ \E r \in 1..Len(imports) : parseError(r)
  \/ \E r \in 1..Len(imports) : CsvPostResponse(r)
  \/ \E r \in 1..Len(imports) : \E d \in Details : CsvPostFailure(r, d)

SpecCsv == InitCsv /\ [][NextCsv]_vars

(***************************************************************************)
(* User management page                                                    *)
(***************************************************************************)
Roles == {"super_admin", "admin", "inward_user", "issuer_user"}
\* roles the route /users admits
ActingRoles == {"super_admin", "admin"}

NoUser == [user_id |-> 0, name |-> "", email |-> "", role |-> "", is_active |-> FALSE]   \* null
UserRow(id, role, active) ==
  [user_id |-> id, name |-> "x", email |-> "x", role |-> role, is_active |-> active]
\* what GET /users can answer with
UserLists ==
  {<<UserRow(1, "super_admin", TRUE), UserRow(2, "admin", TRUE),
     UserRow(3, "inward_user", FALSE)>>}

UserFields == {"name", "email", "password", "role"}
\* the object resetForm installs
BlankUserForm == [name |-> "", email |-> "", password |-> "", role |-> "inward_user"]
\* the SelectItem elements rendered for the acting user
RoleOptions(acting) ==
  (IF acting.role = "super_admin" THEN {"admin"} ELSE {}) \cup {"inward_user", "issuer_user"}
UserInputs(f, acting) ==
  IF f = "role" THEN RoleOptions(acting) ELSE {"", "x"}
\* inputs that are rendered enabled with the required attribute
UserRequired(editing) ==
  IF editing # NoUser THEN {"name"} ELSE {"name", "email", "password"}

\* error.response?.data?.detail || fallback: a detail that is an object is
\* handed to toast.error as it is
OrFallback(detail, fallback) ==
  IF detail = "string" THEN "detail"
  ELSE IF detail = "object" THEN "detail object"
  ELSE fallback

\* a request of the page that awaits its answer
Call(op) == [op |-> op, activate |-> FALSE]
\* what is recorded of a step of the page: the handler, the request it
\* concerns, the role value the request carries and the acting user's role
UserStep(name, op, role, detail) ==
  [name |-> name, code |-> detail, idx |-> 0, was |-> op, role |-> role,
   acting |-> user.role]

InitUsers ==
  /\ view = "users"
  /\ mounted = TRUE
  /\ isDialogOpen = FALSE
  /\ tempItems = <<>>
  /\ editingIndex = NullIndex
  /\ formData = BlankUserForm
  /\ runs = <<>>
  /\ runCount = 0
  /\ created = Untracked
  /\ StockIdle
  /\ SupplierIdle
  /\ LayoutIdle
  /\ CsvIdle
  /\ AuthIdle
  \* useEffect on mount: fetchUser(); fetchUsers()
  /\ user = NoUser
  /\ me = "pending"
  /\ users = <<>>
  /\ editingUser = NoUser
  /\ calls = <<Call("list")>>
  /\ callCount = 0
  /\ toast = NoToast
  /\ gets = 0
  /\ lastAction = Act("init", "", 0)

\* GET /auth/me answers: setUser(response.data)
fetchUserResolved(u) ==
  /\ me = "pending"
  /\ me' = "ok"
  /\ user' = u
  /\ UNCHANGED <<users, editingUser, calls, callCount>>
  /\ toast' = NoToast
  /\ gets' = 0
  /\ lastAction' = Act("fetchUser", "", 0)
  /\ UNCHANGED <<supplierVars, layoutVars, stockVars, batchVars, csvVars, authVars>>

\* GET /auth/me fails: the catch block raises the notification; user stays
\* null and the page keeps rendering "Loading..."
fetchUserRejected ==
  /\ me = "pending"
  /\ me' = "failed"
  /\ UNCHANGED <<user, users, editingUser, calls, callCount>>
  /\ toast' = "Failed to fetch user data"
  /\ gets' = 0
  /\ lastAction' = Act("fetchUserRejected", "", 0)
  /\ UNCHANGED <<supplierVars, layoutVars, stockVars, batchVars, csvVars, authVars>>

\* "Add User" button: resetForm(); setIsDialogOpen(true)
openUserDialog ==
  /\ user # NoUser
  /\ formData' = BlankUserForm
  /\ editingUser' = NoUser
  /\ isDialogOpen' = TRUE
  /\ UNCHANGED <<user, me, users, calls, callCount>>
  /\ toast' = NoToast
  /\ gets' = 0
  /\ lastAction' = Act("openUserDialog", "", 0)
  /\ UNCHANGED <<view, created, mounted, tempItems, editingIndex, runs, runCount>>
  /\ UNCHANGED <<supplierVars, layoutVars, stockVars, csvVars, authVars>>

\* the edit button of row k
handleEdit(k) ==
  /\ user # NoUser
  /\ editingUser' = users[k]
  /\ formData' = [name |-> users[k].name, email |-> users[k].email,
                   password |-> "", role |-> users[k].role]
  /\ isDialogOpen' = TRUE
  /\ UNCHANGED <<user, me, users, calls, callCount>>
  /\ toast' = NoToast
  /\ gets' = 0
  /\ lastAction' = Act("handleEdit", "", k)
  /\ UNCHANGED <<view, created, mounted, tempItems, editingIndex, runs, runCount>>
  /\ UNCHANGED <<supplierVars, layoutVars, stockVars, csvVars, authVars>>

\* onChange / onValueChange of a control of the dialog
setUserField(f, value) ==
  /\ user # NoUser /\ isDialogOpen
  /\ f = "email" => editingUser = NoUser      \* disabled={!!editingUser}
  /\ f = "password" => editingUser = NoUser   \* rendered only when creating
  /\ formData' = [formData EXCEPT ![f] = value]
  /\ UNCHANGED <<isDialogOpen, usersVars>>
  /\ toast' = NoToast
  /\ gets' = 0
  /\ lastAction' = Act("setUserField", "", 0)
  /\ UNCHANGED <<view, created, mounted, tempItems, editingIndex, runs, runCount>>
  /\ UNCHANGED <<supplierVars, layoutVars, stockVars, csvVars, authVars>>

\* Cancel button, or the dialog dismissed: setIsDialogOpen(false)
closeUserDialog ==
  /\ user # NoUser /\ isDialogOpen
  /\ isDialogOpen' = FALSE
  /\ UNCHANGED <<formData, usersVars>>
  /\ toast' = NoToast
  /\ gets' = 0
  /\ lastAction' = Act("closeUserDialog", "", 0)
  /\ UNCHANGED <<view, created, mounted, tempItems, editingIndex, runs, runCount>>
  /\ UNCHANGED <<supplierVars, layoutVars, stockVars, csvVars, authVars>>

\* submit of the dialog's form: handleSubmit up to its await
handleUserSubmit ==
  /\ user # NoUser /\ isDialogOpen
  /\ \A f \in UserRequired(editingUser) : formData[f] # ""
  /\ callCount < MaxCalls
  /\ callCount' = callCount + 1
  /\ calls' = Append(calls, Call(IF editingUser # NoUser THEN "update" ELSE "create"))
  /\ UNCHANGED <<user, me, users, editingUser>>
  /\ UNCHANGED <<isDialogOpen, formData>>
  /\ toast' = NoToast
  /\ gets' = 0
  /\ lastAction' = UserStep("handleUserSubmit",
                            IF editingUser # NoUser THEN "update" ELSE "create",
                            formData.role, "")
  /\ UNCHANGED <<view, created, mounted, tempItems, editingIndex, runs, runCount>>
  /\ UNCHANGED <<supplierVars, layoutVars, stockVars, csvVars, authVars>>

\* the activate / deactivate button of row k
handleToggleActive(k) ==
  /\ user # NoUser
  /\ callCount < MaxCalls
  /\ callCount' = callCount + 1
  /\ calls' = Append(calls, [op |-> "toggle", activate |-> ~users[k].is_active])
  /\ UNCHANGED <<user, me, users, editingUser>>
  /\ UNCHANGED <<isDialogOpen, formData>>
  /\ toast' = NoToast
  /\ gets' = 0
  /\ lastAction' = UserStep("handleToggleActive", "toggle", "", "")
  /\ UNCHANGED <<view, created, mounted, tempItems, editingIndex, runs, runCount>>
  /\ UNCHANGED <<supplierVars, layoutVars, stockVars, csvVars, authVars>>

\* the delete button of row k, rendered for a super_admin only; nothing is
\* sent when window.confirm is answered with Cancel
handleDelete(k, confirmed) ==
  /\ user # NoUser
  /\ user.role = "super_admin"
  /\ callCount < MaxCalls
  /\ IF confirmed
     THEN /\ callCount' = callCount + 1
          /\ calls' = Append(calls, Call("delete"))
          /\ lastAction' = UserStep("handleDelete", "delete", "", "")
     ELSE /\ UNCHANGED <<calls, callCount>>
          /\ lastAction' = UserStep("handleDelete", "none", "", "")
  /\ UNCHANGED <<user, me, users, editingUser>>
  /\ UNCHANGED <<isDialogOpen, formData>>
  /\ toast' = NoToast
  /\ gets' = 0
  /\ UNCHANGED <<view, created, mounted, tempItems, editingIndex, runs, runCount>>
  /\ UNCHANGED <<supplierVars, layoutVars, stockVars, csvVars, authVars>>

UserSuccessText(call) ==
  IF call.op = "update" THEN "User updated successfully"
  ELSE IF call.op = "create" THEN "User created successfully"
  ELSE IF call.op = "toggle"
  THEN "User " \o (IF call.activate THEN "activated" ELSE "deactivated") \o " successfully"
  ELSE "User deleted successfully"

UserFallback(op) == IF op = "delete" THEN "Delete failed" ELSE "Operation failed"

\* request c is answered with success
UserCallResolved(c, list) ==
  LET op == calls[c].op
  IN /\ IF op = "list"
        THEN \* fetchUsers: setUsers(response.data)
             /\ users' = list
             /\ calls' = Without(calls, c)
             /\ toast' = NoToast
             /\ gets' = 0
             /\ UNCHANGED <<isDialogOpen, formData, editingUser>>
        ELSE /\ toast' = UserSuccessText(calls[c])
             /\ IF op \in {"create", "update"}
                THEN \* setIsDialogOpen(false); resetForm()
                     /\ isDialogOpen' = FALSE
                     /\ formData' = BlankUserForm
                     /\ editingUser' = NoUser
                ELSE UNCHANGED <<isDialogOpen, formData, editingUser>>
             \* fetchUsers()
             /\ calls' = Append(Without(calls, c), Call("list"))
             /\ gets' = 1
             /\ UNCHANGED users
     /\ lastAction' = UserStep("resolved", op, "", "")
     /\ UNCHANGED <<user, me, callCount>>
     /\ UNCHANGED <<view, created, mounted, tempItems, editingIndex, runs, runCount>>
     /\ UNCHANGED <<supplierVars, layoutVars, stockVars, csvVars, authVars>>

\* request c fails: the catch block of the handler that awaits it
UserCallRejected(c, detail) ==
  LET op == calls[c].op
  IN /\ toast' = IF op = "list" THEN "Failed to fetch users"
                 ELSE OrFallback(detail, UserFallback(op))
     /\ calls' = Without(calls, c)
     /\ gets' = 0
     /\ UNCHANGED <<user, me, users, editingUser, callCount>>
     /\ UNCHANGED <<isDialogOpen, formData>>
     /\ lastAction' = UserStep("rejected", op, "", detail)
     /\ UNCHANGED <<view, created, mounted, tempItems, editingIndex, runs, runCount>>
     /\ UNCHANGED <<supplierVars, layoutVars, stockVars, csvVars, authVars>>

NextUsers ==
  \/ \E r \in ActingRoles : fetchUserResolved(UserRow(9, r, TRUE))
  \/ fetchUserRejected
  \/ openUserDialog
  \/ \E k \in 1..Len(users) : handleEdit(k)
  \/ \E f \in UserFields : \E x \in UserInputs(f, user) : setUserField(f, x)
  \/ closeUserDialog
  \/ handleUserSubmit
  \/ \E k \in 1..Len(users) : handleToggleActive(k)
  \/ \E k \in 1..Len(users) : \E ok \in BOOLEAN : handleDelete(k, ok)
  \/ \E c \in 1..Len(calls) : \E l \in UserLists : UserCallResolved(c, l)
  \/ \E c \in 1..Len(calls) : \E d \in Details : UserCallRejected(c, d)

SpecUsers == InitUsers /\ [][NextUsers]_vars

(***************************************************************************)
(* Auth callback view                                                      *)
(***************************************************************************)
\* URL fragments with which AppRouter renders AuthCallback
\* (location.hash?.includes('session_id='))
SessionHashes ==
  {"#session_id=abc", "#state=1&session_id=def", "#session_id=", "#xsession_id=abc"}
includesSessionId(hash) == hash \in SessionHashes

\* new URLSearchParams(hash.substring(1)).get('session_id'); Null when the
\* fragment has no such parameter
sessionIdOf(hash) ==
  CASE hash = "#session_id=abc" -> "abc"
    [] hash = "#state=1&session_id=def" -> "def"
    [] hash = "#session_id=" -> ""
    [] OTHER -> Null

\* what GET /auth/session-data can answer with
SessionUsers == {"user1", "user2"}
\* localStorage['user'] before the view is mounted
StoredBefore == {Null, "stale"}

AuthStep(name, code) == [name |-> name, code |-> code, idx |-> effects, was |-> ""]

\* navigate(path): the new location has no fragment
navigate(path) == location' = [path |-> path, hash |-> ""]

InitAuth ==
  /\ view = "auth"
  /\ NoBatch
  /\ StockIdle
  /\ SupplierIdle
  /\ LayoutIdle
  /\ CsvIdle
  /\ UsersIdle
  /\ location \in [path : {"/", "/dashboard"}, hash : SessionHashes]
  /\ hasProcessed = FALSE
  /\ localStorage \in StoredBefore
  /\ session = [state |-> "none", sent |-> 0, header |-> ""]
  /\ effects = 0
  /\ toast = NoToast
  /\ gets = 0
  /\ lastAction = Act("init", "", 0)

\* processSession up to its await
processSession ==
  LET sessionId == sessionIdOf(location.hash)
  IN IF sessionId = Null \/ sessionId = ""
     THEN /\ toast' = "Invalid session"
          /\ navigate("/")
          /\ UNCHANGED session
          /\ lastAction' = AuthStep("processSession", "invalid")
     ELSE \* await api.get('/auth/session-data', ...)
          /\ session' = [state |-> "pending", sent |-> session.sent + 1,
                          header |-> sessionId]
          /\ toast' = NoToast
          /\ UNCHANGED location
          /\ lastAction' = AuthStep("processSession", "sent")

useEffect_noGuard ==
  /\ includesSessionId(location.hash)
  /\ effects < MaxEffects
  /\ effects' = effects + 1
  /\ hasProcessed' = TRUE
  /\ processSession
  /\ gets' = 0
  /\ UNCHANGED localStorage
  /\ UNCHANGED <<supplierVars, layoutVars, stockVars, batchVars, csvVars, usersVars>>

\* the effect of the mounted view runs (on mount, and again when React
\* re-runs it)
useEffect ==
  /\ includesSessionId(location.hash)
  /\ effects < MaxEffects
  /\ effects' = effects + 1
  /\ IF hasProcessed
     THEN /\ UNCHANGED <<hasProcessed, location, session>>
          /\ toast' = NoToast
          /\ lastAction' = AuthStep("useEffect", "skipped")
     ELSE /\ hasProcessed' = TRUE
          /\ processSession
  /\ gets' = 0
  /\ UNCHANGED localStorage
  /\ UNCHANGED <<supplierVars, layoutVars, stockVars, batchVars, csvVars, usersVars>>

\* GET /auth/session-data answers with the user u
processSessionResolved(u) ==
  /\ session.state = "pending"
  /\ session' = [session EXCEPT !.state = "ok"]
  /\ localStorage' = u
  /\ toast' = "Login successful!"
  /\ navigate("/dashboard")
  /\ gets' = 0
  /\ lastAction' = AuthStep("processSessionResolved", u)
  /\ UNCHANGED <<hasProcessed, effects>>
  /\ UNCHANGED <<supplierVars, layoutVars, stockVars, batchVars, csvVars, usersVars>>

\* GET /auth/session-data fails: the catch block
processSessionRejected(detail) ==
  /\ session.state = "pending"
  /\ session' = [session EXCEPT !.state = "failed"]
  /\ toast' = "Authentication failed"
  /\ navigate("/")
  /\ gets' = 0
  /\ lastAction' = AuthStep("processSessionRejected", detail)
  /\ UNCHANGED <<hasProcessed, effects, localStorage>>
  /\ UNCHANGED <<supplierVars, layoutVars, stockVars, batchVars, csvVars, usersVars>>

NextAuth ==
  \/ useEffect
  \/ \E u \in SessionUsers : processSessionResolved(u)
  \/ \E d \in Details : processSessionRejected(d)

SpecAuth == InitAuth /\ [][NextAuth]_vars

(***************************************************************************)
(* Properties of the stock statement view                                  *)
(***************************************************************************)
AllEmpty == stockData = <<>> /\ inwardEntries = <<>> /\ issueEntries = <<>>
ShowsBodies(bd) ==
  /\ stockData = OrEmpty(bd[1])
  /\ inwardEntries = OrEmpty(bd[2])
  /\ issueEntries = OrEmpty(bd[3])
ExpandedRows == {k \in 1..Len(stockData) : isExpanded(stockData[k])}

\* C1: every fetch with both dates set issues exactly the three GETs /stock,
\* /inward, /issue, all with the From/To range selected at the click, and in
\* every state the three collections are either the three bodies of one
\* resolved fetch or all empty; right after a fetch resolves they are its bodies.
C1_AllOrNothing ==
  /\ fetch.settled # "none" =>
       /\ Len(fetch.sent) = 3
       /\ \A i \in 1..3 :
            /\ fetch.sent[i].path = Paths[i]
            /\ fetch.sent[i].from_date = fetch.sent[1].from_date
            /\ fetch.sent[i].to_date = fetch.sent[1].to_date
            /\ fetch.sent[i].from_date \in Dates
            /\ fetch.sent[i].to_date \in Dates
  /\ lastAction.name = "handleFetchClick" =>
       \A i \in 1..3 : /\ fetch.sent[i].from_date = fromDate
                       /\ fetch.sent[i].to_date = toDate
  /\ lastAction.name = "fetchStockResolved" => ShowsBodies(fetch.body)
  /\ AllEmpty \/ ShowsBodies(lastOk)

\* a second fetch resolved with rows in all three collections
C1_Witness ==
  /\ lastAction.name = "fetchStockResolved"
  /\ fetchCount = 2
  /\ Len(stockData) = 2 /\ Len(inwardEntries) = 3 /\ Len(issueEntries) = 1

\* C2: when one of the three requests of a fetch fails, the three collections
\* are all emptied and exactly one error notification is raised for that fetch
\* (a fetch with a failed request never resolves, a later failure adds none).
C2_FailureClearsAll ==
  /\ lastAction.name = "fetchStockRejected" =>
       /\ AllEmpty
       /\ toast # NoToast
       /\ fetch.errors = 1
  /\ (\E i \in 1..3 : fetch.state[i] = "failed") =>
       /\ fetch.settled = "failed"
       /\ fetch.errors = 1
  /\ fetch.settled \in {"ok", "no", "none"} => fetch.errors = 0

\* a later fetch is rejected after another of its requests was answered and
\* an earlier fetch had delivered rows
C2_Witness ==
  /\ lastAction.name = "fetchStockRejected"
  /\ fetchCount >= 2
  /\ lastOk # NoBodies
  /\ \E i \in 1..3 : fetch.state[i] = "ok"

\* C3 (as claimed): after Clear the three collections stay empty until the
\* user next invokes Fetch, also when an earlier fetch resolves after the Clear.
C3_ClearedStaysEmpty == cleared => AllEmpty

\* C4: the expansion state is one value, at most one row is expanded;
\* toggling another item moves the expansion to it, toggling the expanded
\* item collapses it.
C4_SingleExpansion ==
  /\ expandedItemCode \in ItemCodes \cup {Null}
  /\ Cardinality(ExpandedRows) <= 1
  /\ lastAction.name = "toggleExpand" =>
       expandedItemCode = IF lastAction.was = lastAction.code
                          THEN Null ELSE lastAction.code

\* item B was toggled while item A was expanded
C4_Witness ==
  /\ lastAction.name = "toggleExpand"
  /\ lastAction.was = "A"
  /\ lastAction.code = "B"
  /\ expandedItemCode = "B"
  /\ Cardinality(ExpandedRows) = 1

(***************************************************************************)
(* Supplier master: country / state / city of the dialog's form            *)
(***************************************************************************)
\* COUNTRY_STATE_CITY, with two of its countries and three of their states
COUNTRY_STATE_CITY ==
  [c \in {"India", "United Kingdom"} |->
     IF c = "India"
     THEN [s \in {"Goa", "Sikkim"} |->
             IF s = "Goa" THEN <<"Panaji", "Margao">> ELSE <<"Gangtok">>]
     ELSE [s \in {"Wales"} |-> <<"Cardiff", "Swansea">>]]

\* Object.keys(COUNTRY_STATE_CITY)
countries == DOMAIN COUNTRY_STATE_CITY

\* the rows GET /suppliers can answer with: created through the form, with
\* no location, or imported from a CSV file whose location columns are
\* sent to the backend as they are
Supplier(id, country, state, city) ==
  [id |-> id, country |-> country, state |-> state, city |-> city]
SupplierRows ==
  {Supplier(1, "India", "Goa", "Margao"),
   Supplier(2, "", "", ""),
   Supplier(3, "United Kingdom", "Goa", "Panaji"),
   Supplier(4, "India", "Goa", "Pune"),
   Supplier(5, "Germany", "Bavaria", "Munich")}

SupplierNames == {"", "S"}

\* the object resetForm installs
BlankSupplierForm ==
  [supplier_name |-> "", country |-> "", state |-> "", city |-> ""]

\* COUNTRY_STATE_CITY[formData.country] is undefined and Object.keys(undefined),
\* or undefined[formData.state], throws a TypeError
LookupThrows(form) == form.country # "" /\ form.country \notin countries

\* getStates(), for a form whose lookup does not throw
getStates(form) ==
  IF form.country # "" THEN DOMAIN COUNTRY_STATE_CITY[form.country] ELSE {}

\* getCities(), for a form whose lookup does not throw
getCities(form) ==
  IF form.country # "" /\ form.state # ""
  THEN IF form.state \in DOMAIN COUNTRY_STATE_CITY[form.country]
       THEN COUNTRY_STATE_CITY[form.country][form.state]
       ELSE <<>>
  ELSE <<>>

\* the dialog's content calls getStates() and getCities() on every render;
\* nothing catches what they throw, so the page is unmounted
SupplierRenderThrows(open, form) == open /\ LookupThrows(form)

InitSupplier ==
  /\ view = "suppliers"
  /\ mounted = TRUE
  /\ isDialogOpen = FALSE
  /\ tempItems = <<>>
  /\ editingIndex = NullIndex
  /\ formData = BlankSupplierForm
  /\ runs = <<>>
  /\ runCount = 0
  /\ created = Untracked
  /\ editingSupplier = NoSupplier
  /\ StockIdle
  /\ CsvIdle
  /\ UsersIdle
  /\ AuthIdle
  /\ LayoutIdle
  /\ toast = NoToast
  /\ gets = 0
  /\ lastAction = Act("init", "", 0)

\* what a step of the supplier form leaves alone
SupplierFrame ==
  /\ UNCHANGED <<view, tempItems, editingIndex, runs, runCount, created>>
  /\ UNCHANGED <<stockVars, csvVars, usersVars, authVars, layoutVars>>
  /\ toast' = NoToast
  /\ gets' = 0

\* "Add Supplier" button: resetForm(); setIsDialogOpen(true)
openSupplierDialog ==
  /\ mounted /\ ~isDialogOpen
  /\ formData' = BlankSupplierForm
  /\ editingSupplier' = NoSupplier
  /\ isDialogOpen' = TRUE
  /\ UNCHANGED mounted
  /\ SupplierFrame
  /\ lastAction' = Act("openSupplierDialog", "", 0)

\* the edit button of a row: handleEdit(supplier)
handleSupplierEdit(supplier) ==
  /\ mounted /\ ~isDialogOpen
  /\ editingSupplier' = supplier
  /\ formData' = [supplier_name |-> "S", country |-> supplier.country,
                  state |-> supplier.state, city |-> supplier.city]
  /\ isDialogOpen' = TRUE
  /\ mounted' = ~SupplierRenderThrows(isDialogOpen', formData')
  /\ SupplierFrame
  /\ lastAction' = Act("handleEdit", "", supplier.id)

\* onChange of the supplier name input
setSupplierName(value) ==
  /\ mounted /\ isDialogOpen
  /\ formData' = [formData EXCEPT !.supplier_name = value]
  /\ UNCHANGED <<mounted, isDialogOpen, editingSupplier>>
  /\ SupplierFrame
  /\ lastAction' = Act("setSupplierName", "", 0)

\* onValueChange of the country Select, whose items are the countries
setCountry(value) ==
  /\ mounted /\ isDialogOpen
  /\ value \in countries
  /\ formData' = [formData EXCEPT !.country = value, !.state = "", !.city = ""]
  /\ UNCHANGED <<mounted, isDialogOpen, editingSupplier>>
  /\ SupplierFrame
  /\ lastAction' = Act("setCountry", value, 0)

\* onValueChange of the state Select (disabled={!formData.country}), whose
\* items are getStates()
setState(value) ==
  /\ mounted /\ isDialogOpen
  /\ formData.country # ""
  /\ value \in getStates(formData)
  /\ formData' = [formData EXCEPT !.state = value, !.city = ""]
  /\ UNCHANGED <<mounted, isDialogOpen, editingSupplier>>
  /\ SupplierFrame
  /\ lastAction' = Act("setState", value, 0)

\* onValueChange of the city Select (disabled={!formData.state}), whose
\* items are getCities()
setCity(value) ==
  /\ mounted /\ isDialogOpen
  /\ formData.state # ""
  /\ \E k \in 1..Len(getCities(formData)) : getCities(formData)[k] = value
  /\ formData' = [formData EXCEPT !.city = value]
  /\ UNCHANGED <<mounted, isDialogOpen, editingSupplier>>
  /\ SupplierFrame
  /\ lastAction' = Act("setCity", value, 0)

\* "Cancel" button and dismissal of the dialog: setIsDialogOpen(false)
closeSupplierDialog ==
  /\ mounted /\ isDialogOpen
  /\ isDialogOpen' = FALSE
  /\ UNCHANGED <<mounted, formData, editingSupplier>>
  /\ SupplierFrame
  /\ lastAction' = Act("closeSupplierDialog", "", 0)

Cities == {"Panaji", "Margao", "Gangtok", "Cardiff", "Swansea"}
States == {"Goa", "Sikkim", "Wales"}

NextSupplier ==
  \/ openSupplierDialog
  \/ \E supplier \in SupplierRows : handleSupplierEdit(supplier)
  \/ \E value \in SupplierNames : setSupplierName(value)
  \/ \E value \in countries : setCountry(value)
  \/ \E value \in States : setState(value)
  \/ \E value \in Cities : setCity(value)
  \/ closeSupplierDialog

SpecSupplier == InitSupplier /\ [][NextSupplier]_vars

(***************************************************************************)
(* Layout: sidebar navigation and logout; the routes of App.js             *)
(***************************************************************************)
NavItem(path, roles) == [path |-> path, roles |-> roles]

navItems ==
  <<NavItem("/dashboard", {"super_admin", "admin", "inward_user", "issuer_user"}),
    NavItem("/items", {"super_admin", "admin"}),
    NavItem("/inward", {"super_admin", "admin", "inward_user"}),
    NavItem("/issue", {"super_admin", "admin", "issuer_user"}),
    NavItem("/stock", {"super_admin", "admin"}),
    NavItem("/users", {"super_admin", "admin"})>>

\* navItems.filter((item) => item.roles.includes(user?.role))
filteredNavItems == SelectSeq(navItems, LAMBDA item : user.role \in item.roles)

\* the routes whose ProtectedRoute is given allowedRoles
RestrictedPaths == {"/inward", "/issue", "/stock", "/users"}
allowedRoles(path) ==
  IF path = "/inward" THEN {"super_admin", "inward_user"}
  ELSE IF path = "/issue" THEN {"super_admin", "issuer_user"}
  ELSE IF path = "/stock" THEN {"super_admin"}
  ELSE {"super_admin", "admin"}

\* ProtectedRoute: a route without allowedRoles admits every signed-in user,
\* a route with allowedRoles admits the roles it lists
Admits(path, role) == path \notin RestrictedPaths \/ role \in allowedRoles(path)

\* localStorage['token'] and localStorage['user'] before the layout is mounted
StoredTokens == {Null, "jwt"}
StoredUsers == {Null, "user1"}

LayoutStep(name, code, k) ==
  [name |-> name, code |-> code, idx |-> k,
   was |-> IF token # Null /\ localStorage # Null THEN "both" ELSE ""]

InitLayout ==
  /\ view = "layout"
  /\ NoBatch
  /\ StockIdle
  /\ CsvIdle
  /\ SupplierIdle
  /\ user \in {UserRow(1, role, TRUE) : role \in Roles}
  /\ me = "ok"
  /\ users = <<>>
  /\ editingUser = NoUser
  /\ calls = <<>>
  /\ callCount = 0
  /\ location = [path |-> "/dashboard", hash |-> ""]
  /\ hasProcessed = FALSE
  /\ localStorage \in StoredUsers
  /\ session = [state |-> "none", sent |-> 0, header |-> ""]
  /\ effects = 0
  /\ isSidebarOpen = FALSE
  /\ token \in StoredTokens
  /\ logouts = 0
  /\ logoutCount = 0
  /\ toast = NoToast
  /\ gets = 0
  /\ lastAction = Act("init", "", 0)

\* what a step of the layout leaves alone
LayoutFrame ==
  /\ UNCHANGED <<view, isDialogOpen, tempItems, editingIndex, formData, runs,
                 runCount, created>>
  /\ UNCHANGED <<stockVars, csvVars, usersVars, supplierVars>>
  /\ UNCHANGED <<hasProcessed, session, effects>>
  /\ gets' = 0

\* the menu button (true), the close button and the overlay (false)
setIsSidebarOpen(open) ==
  /\ mounted
  /\ isSidebarOpen # open
  /\ isSidebarOpen' = open
  /\ UNCHANGED <<mounted, location, localStorage, token, logouts, logoutCount>>
  /\ toast' = NoToast
  /\ LayoutFrame
  /\ lastAction' = LayoutStep("setIsSidebarOpen", "", 0)

\* the k-th link of the sidebar: the router goes to item.path, onClick closes
\* the sidebar; the page of the route, and the layout inside it, is rendered
\* when the route admits the user
navLink(k) ==
  /\ mounted
  /\ k \in 1..Len(filteredNavItems)
  /\ location' = [path |-> filteredNavItems[k].path, hash |-> ""]
  /\ isSidebarOpen' = FALSE
  /\ mounted' = Admits(filteredNavItems[k].path, user.role)
  /\ UNCHANGED <<localStorage, token, logouts, logoutCount>>
  /\ toast' = NoToast
  /\ LayoutFrame
  /\ lastAction' = LayoutStep("navLink",
                              IF Admits(filteredNavItems[k].path, user.role)
                              THEN "admitted" ELSE "denied", k)

\* the Logout button: handleLogout up to its await
handleLogout ==
  /\ mounted
  /\ logoutCount < MaxLogouts
  /\ logoutCount' = logoutCount + 1
  /\ logouts' = logouts + 1
  /\ UNCHANGED <<mounted, isSidebarOpen, location, localStorage, token>>
  /\ toast' = NoToast
  /\ LayoutFrame
  /\ lastAction' = LayoutStep("handleLogout", "", 0)

logoutResolved_keepUser ==
  /\ logouts > 0
  /\ logouts' = logouts - 1
  /\ token' = Null
  /\ UNCHANGED localStorage
  /\ toast' = "Logged out successfully"
  /\ navigate("/")
  /\ mounted' = FALSE
  /\ UNCHANGED <<isSidebarOpen, logoutCount>>
  /\ LayoutFrame
  /\ lastAction' = LayoutStep("logoutResolved", "", 0)

\* handleLogout after the await, POST /auth/logout succeeded; the login page
\* at "/" has no layout
logoutResolved ==
  /\ logouts > 0
  /\ logouts' = logouts - 1
  /\ token' = Null
  /\ localStorage' = Null
  /\ toast' = "Logged out successfully"
  /\ navigate("/")
  /\ mounted' = FALSE
  /\ UNCHANGED <<isSidebarOpen, logoutCount>>
  /\ LayoutFrame
  /\ lastAction' = LayoutStep("logoutResolved", "", 0)

\* handleLogout's catch block, POST /auth/logout failed
logoutRejected ==
  /\ logouts > 0
  /\ logouts' = logouts - 1
  /\ toast' = "Failed to logout"
  /\ UNCHANGED <<mounted, isSidebarOpen, location, localStorage, token,
                 logoutCount>>
  /\ LayoutFrame
  /\ lastAction' = LayoutStep("logoutRejected", "", 0)

NextLayout ==
  \/ \E open \in BOOLEAN : setIsSidebarOpen(open)
  \/ \E k \in 1..Len(navItems) : navLink(k)
  \/ handleLogout
  \/ logoutResolved
  \/ logoutRejected

SpecLayout == InitLayout /\ [][NextLayout]_vars

(***************************************************************************)
(* Properties of the batch dialogs                                         *)
(***************************************************************************)
\* a[j] as JS reads it
Read(a, j) == IF a[j + 1] \in {Hole, Undefined} THEN Undefined ELSE a[j + 1]
IsLine(x) == x \notin {Hole, Undefined}
RealLines(a) == SelectSeq(a, IsLine)
\* number of staged lines at indices 0..j
Rank(a, j) == Cardinality({k \in 1..(j + 1) : IsLine(a[k])})
AddInvoked == lastAction'.name \in {"handleAddItem", "submitBlocked"}

\* C5 (as claimed): Add Item with any field of the form empty leaves the
\* staging list, the edit marker and the form unchanged and raises the
\* 'Please fill all fields' error.
C5_RejectedAdd ==
  [][(AddInvoked /\ \E f \in Fields(view) : formData[f] = "") =>
       /\ toast' = FillAllFields
       /\ UNCHANGED <<tempItems, editingIndex, formData>>]_vars

\* C6: Add Item with every field filled is accepted; with staged line i in
\* edit it keeps the length of the list, puts the form's values at position i,
\* leaves every other position as it was and clears the edit marker; with no
\* line in edit it appends the form's values as one line at the end.
C6_ReplaceInPlace ==
  [][(AddInvoked /\ \A f \in Fields(view) : formData[f] # "") =>
       /\ lastAction'.code \in {"update", "append"}
       /\ (editingIndex # NullIndex /\ editingIndex < Len(tempItems)) =>
            /\ lastAction'.code = "update"
            /\ Len(tempItems') = Len(tempItems)
            /\ Read(tempItems', editingIndex) = formData
            /\ \A j \in 0..(Len(tempItems) - 1) :
                 j # editingIndex => Read(tempItems', j) = Read(tempItems, j)
            /\ editingIndex' = NullIndex
       /\ editingIndex = NullIndex =>
            /\ lastAction'.code = "append"
            /\ Len(tempItems') = Len(tempItems) + 1
            /\ Read(tempItems', Len(tempItems)) = formData
            /\ \A j \in 0..(Len(tempItems) - 1) :
                 Read(tempItems', j) = Read(tempItems, j)
            /\ editingIndex' = NullIndex]_vars

\* line 0 of a two-line list was in edit and has been replaced
C6_Witness ==
  /\ lastAction.name = "handleAddItem"
  /\ lastAction.code = "update"
  /\ lastAction.idx = 0
  /\ Len(tempItems) = 2
  /\ tempItems[1] # tempItems[2]
  /\ editingIndex = NullIndex

ErrorTexts == {"detail", "Operation failed"}

\* C8: Save All iterates the staging list as it is at the click; a run issues
\* call k+1 only after call k succeeded; when a call fails the run ends with
\* one error, issues no further call, the lines created before stay created,
\* and the staging list, the form and the dialog are left as they were.
C8_SequentialAbort ==
  [][/\ \A r \in 1..Len(runs') :
          /\ runs'[r].sent = runs'[r].ok + 1
          /\ runs'[r].sent <= Len(runs'[r].items)
     /\ (lastAction'.name = "post" /\ Len(runs') > Len(runs)) =>
          /\ runs'[Len(runs')].items = tempItems
          /\ runs'[Len(runs')].sent = 1
     /\ lastAction'.name = "handleSubmitFailed" =>
          /\ Len(runs') = Len(runs) - 1 \/ (Len(runs') = Len(runs) /\ lastAction'.sent = 0)
          /\ lastAction'.errors = 1
          /\ toast' \in ErrorTexts
          /\ lastAction'.sent <= lastAction'.ok + 1
          /\ lastAction'.ok < lastAction'.idx
          /\ gets' = 0
          /\ UNCHANGED <<tempItems, isDialogOpen, formData, editingIndex>>]_vars

\* the second call of a two-line run failed after the first line was created
C8_Witness ==
  /\ lastAction.name = "handleSubmitFailed"
  /\ lastAction.idx = 2
  /\ lastAction.sent = 2
  /\ lastAction.ok = 1
  /\ isDialogOpen
  /\ Len(tempItems) = 2

\* C9: when every create call of a Save All has succeeded, the staging list is
\* emptied, the form reset, the dialog closed and one re-fetch of the entry
\* list is issued, after the last create call; nothing else re-fetches.
C9_FullSuccess ==
  /\ gets \in {0, 1}
  /\ gets = 1 => lastAction.name = "handleSubmitDone"
  /\ lastAction.name = "handleSubmitDone" =>
       /\ lastAction.sent = lastAction.idx
       /\ lastAction.ok = lastAction.idx
       /\ lastAction.errors = 0
       /\ gets = 1
       /\ mounted =>
            /\ tempItems = <<>>
            /\ formData = BlankForm(view)
            /\ ~isDialogOpen

\* a Save All of two lines has succeeded
C9_Witness ==
  /\ lastAction.name = "handleSubmitDone"
  /\ lastAction.idx = 2
  /\ mounted
  /\ tempItems = <<>>
  /\ ~isDialogOpen
  /\ gets = 1

\* C10 (as claimed): at most one create request of the view is in flight at
\* any time (every run in runs is awaiting one POST).
C10_OneCreateInFlight == Len(runs) <= 1

(***************************************************************************)
(* Properties of the CSV import                                            *)
(***************************************************************************)
\* the required header names that the header row of a file does not hold
AbsentFrom(v, file) ==
  SelectSeq(requiredHeaders(v), LAMBDA h : h \notin Range(file.header))

\* C11 (as claimed): an import of a file whose header row lacks a required
\* name issues no create call, reports exactly the required names absent
\* from the file, and calls no re-fetch.
C11_MissingHeaderReport ==
  [][(/\ lastAction'.name = "complete"
      /\ ~HasAllRequired(view, lastAction'.file))
     => /\ lastAction'.end = "missing"
        /\ lastAction'.idx = 0
        /\ lastAction'.sent = 0
        /\ gets' = 0
        /\ lastAction'.missing = AbsentFrom(view, lastAction'.file)
        /\ toast' = MissingHeadersText(AbsentFrom(view, lastAction'.file))]_vars

\* C12 (as claimed): an import of a file with all required headers and n
\* rows posts the rows in order, one at a time; it ends either after n
\* successful creates with the chosen file cleared and one re-fetch, or at
\* the first rejected create with the generic import error and no further
\* create.
C12_SequentialImport ==
  [][(/\ lastAction'.name \in {"complete", "csvPosted", "csvRejected"}
      /\ HasAllRequired(view, lastAction'.file))
     => LET a == lastAction'
            n == Len(a.file.rows)
        IN /\ a.idx # 0 => (a.idx = a.ok + 1 /\ a.sent = a.idx /\ a.idx <= n)
           /\ a.end \in {"none", "done", "failed"}
           /\ a.end = "done" =>
                /\ a.sent = n /\ a.ok = n
                /\ csvFile' = NoFile
                /\ gets' = 1
                /\ toast' = CsvSuccessText(view)
           /\ a.end = "failed" =>
                /\ a.idx = 0
                /\ a.sent = a.ok + 1
                /\ gets' = 0
                /\ toast' = CsvErrorText(view)]_vars

\* C13 (as claimed): when the header row of the file holds every required
\* name, the import reports no missing header, whatever the data rows are;
\* with zero data rows it then issues no create call.
C13_HeaderRowOnly ==
  [][(/\ lastAction'.name = "complete"
      /\ HasAllRequired(view, lastAction'.file))
     => /\ lastAction'.missing = <<>>
        /\ lastAction'.end # "missing"
        /\ Len(lastAction'.file.rows) = 0 => lastAction'.idx = 0]_vars

(***************************************************************************)
(* Properties that span the views                                          *)
(***************************************************************************)
\* the step is a user action that fails the view's validation
ValidationFails ==
  \/ AddInvoked /\ \E f \in Fields(view) : formData[f] = ""
  \/ lastAction'.name = "handleSubmit" /\ tempItems = <<>>
  \/ lastAction'.name = "handleFetchClick" /\ (fromDate = "" \/ toDate = "")
  \/ lastAction'.name = "handleCSVUpload" /\ csvFile = NoFile
  \/ lastAction'.name = "complete" /\ lastAction'.end = "missing"

\* the step raises the error notification of the validation that failed
ValidationErrorRaised ==
  IF lastAction'.name = "complete"
  THEN toast' = MissingHeadersText(lastAction'.missing)
  ELSE toast' \in {FillAllFields, "Please add at least one item",
                   "Please select both From and To dates",
                   "Please select a CSV file"}

\* the step hands no request to the network
NoRequestIssued ==
  /\ gets' = 0
  /\ runs' = runs
  /\ fetch' = fetch
  /\ lastAction'.idx = 0 \/ lastAction'.name \notin {"complete", "csvPosted"}

\* C14 (as claimed): Save All with an empty staging list, Add Item with an
\* empty required field, CSV Import with no file or with a missing required
\* header, and Fetch with From or To unset each raise an error notification
\* and issue no network request.
C14_ValidationFirst ==
  [][ValidationFails => (ValidationErrorRaised /\ NoRequestIssued)]_vars

\* the handler's fixed fallback message of a failed call
FixedFallback(a) ==
  IF a.name = "fetchStockRejected"
  THEN "Failed to fetch stock statement or transactions"
  ELSE IF a.was = "list" THEN "Failed to fetch users"
  ELSE UserFallback(a.was)

\* C15 (as claimed): the notification of a failed backend call is the
\* backend's detail verbatim when the detail is a string and the handler's
\* fixed fallback message otherwise; a detail that is not a string never
\* reaches the notification.
C15_ErrorMessageSelection ==
  [][lastAction'.name \in {"fetchStockRejected", "rejected"} =>
       toast' = IF lastAction'.code = "string" THEN "detail"
                ELSE FixedFallback(lastAction')]_vars

\* the steps in which a handler catches a failed call
FailureSteps ==
  {"fetchStockRejected", "rejected", "fetchUserRejected", "handleSubmitFailed",
   "csvRejected", "processSessionRejected"}

\* C16 (as claimed): every failed call raises an error notification in the
\* handler that issued it, and after a failure the view still renders its
\* controls, so that further user actions are possible.
C16_NoFatalFailure ==
  [][/\ lastAction'.name \in FailureSteps => toast' # NoToast
     /\ me' = "failed" => user' # NoUser]_vars

\* the step ends a handler run that has made at least one successful
\* create, update or delete call
MutatingRunEnds ==
  \/ /\ lastAction'.name \in {"handleSubmitDone", "handleSubmitFailed"}
     /\ lastAction'.ok >= 1
  \/ /\ lastAction'.name \in {"csvPosted", "csvRejected"}
     /\ lastAction'.end # "none"
     /\ lastAction'.ok >= 1
  \/ /\ lastAction'.name = "resolved"
     /\ lastAction'.was # "list"

\* C17 (as claimed): a handler run that has made at least one successful
\* create, update or delete call re-fetches the list of the resource when
\* it ends, also when it ends with a failure part-way.
C17_RefetchAfterMutation ==
  [][MutatingRunEnds => gets' = 1]_vars

\* C20 (as claimed): a delete-user request is issued only when the acting
\* user is super_admin; the role sent by a user create or update request is
\* never super_admin and is admin only when the acting user is super_admin.
C20_RoleRestricted ==
  /\ (lastAction.name = "handleDelete" /\ lastAction.was = "delete") =>
       lastAction.acting = "super_admin"
  /\ lastAction.name = "handleUserSubmit" =>
       /\ lastAction.role # "super_admin"
       /\ lastAction.role = "admin" => lastAction.acting = "super_admin"

(***************************************************************************)
(* Properties of the stock export                                          *)
(***************************************************************************)
ExportSteps == {"handleDownloadCSV", "handleDownloadExcel"}

\* the value a summary field shows in the exported table
Shown(x) == IF x.null THEN BlankCell ELSE Cell(x.v)

\* C18: an export is made only while the stock summary is not empty; its
\* table has one row per summary row, in the same order, and each row holds
\* that item's code, opening, inward, issue and closing values and its rate,
\* the rate cell being blank when the summary row has no rate.
C18_ExportTable ==
  lastAction.name \in ExportSteps =>
    /\ Len(stockData) # 0
    /\ lastAction.code # ""
    /\ Len(lastAction.table) = Len(stockData)
    /\ \A k \in 1..Len(stockData) :
         LET row == lastAction.table[k]
             s == stockData[k]
         IN /\ row.ItemCode = s.item_code
            /\ row.OpeningStock = Cell(s.opening_stk.v)
            /\ row.InwardQty = Cell(s.inward_qty.v)
            /\ row.IssueQty = Cell(s.issue_qty.v)
            /\ row.ClosingStock = Cell(s.closing_stk.v)
            /\ row.Rate = Shown(s.rate)

\* both formats have exported a two-row summary whose first row has no rate
\* and whose second row has one
C18_Witness ==
  /\ lastAction.name = "handleDownloadExcel"
  /\ Len(lastAction.table) = 2
  /\ lastAction.table[1].Rate = BlankCell
  /\ lastAction.table[2].Rate = Cell(7)
  /\ lastAction.table[2].ItemCode = "B"
  /\ toast = "Excel file downloaded"

(***************************************************************************)
(* Properties of the auth callback view                                    *)
(***************************************************************************)
\* C19: the mounted view issues GET /auth/session-data at most once, however
\* often its effect runs; with no session_id in the fragment it issues no
\* request, reports an invalid session and navigates to the login page; on
\* success it stores the returned user and navigates to the dashboard; on
\* failure it stores no user, reports the failure and navigates to the
\* login page.
C19_SessionExchangeOnce ==
  [][/\ session'.sent <= 1
     /\ (lastAction'.name = "processSession" /\ lastAction'.code = "invalid") =>
          /\ session' = session
          /\ toast' = "Invalid session"
          /\ location' = [path |-> "/", hash |-> ""]
          /\ localStorage' = localStorage
     /\ (lastAction'.name = "processSession" /\ lastAction'.code = "sent") =>
          /\ sessionIdOf(location.hash) \in {"abc", "def"}
          /\ session'.header = sessionIdOf(location.hash)
          /\ session.sent = 0
     /\ lastAction'.name = "useEffect" => UNCHANGED <<session, location, localStorage>>
     /\ lastAction'.name = "processSessionResolved" =>
          /\ localStorage' = lastAction'.code
          /\ localStorage' \in SessionUsers
          /\ location' = [path |-> "/dashboard", hash |-> ""]
     /\ lastAction'.name = "processSessionRejected" =>
          /\ localStorage' = localStorage
          /\ toast' = "Authentication failed"
          /\ location' = [path |-> "/", hash |-> ""]]_vars

\* the effect has run three times, one request was issued and has succeeded
C19_Witness ==
  /\ effects >= 3
  /\ session = [state |-> "ok", sent |-> 1, header |-> "def"]
  /\ localStorage = "user2"
  /\ location.path = "/dashboard"

(***************************************************************************)
(* Properties of the stock statement view: detail, loading flag, dates     *)
(***************************************************************************)
\* the positions of seq that hold an entry of item c
PositionsOf(seq, c) == {j \in 1..Len(seq) : seq[j].item_code = c}
\* sub is exactly the entries of item c in seq, in the order of seq
ExactJoin(sub, seq, c) ==
  /\ Len(sub) = Cardinality(PositionsOf(seq, c))
  /\ \A j \in PositionsOf(seq, c) :
       sub[Cardinality({x \in PositionsOf(seq, c) : x < j}) + 1] = seq[j]
DetailIsJoin ==
  \A k \in DOMAIN DetailRows :
    /\ ExactJoin(DetailRows[k].itemInwards, inwardEntries, stockData[k].item_code)
    /\ ExactJoin(DetailRows[k].itemIssues, issueEntries, stockData[k].item_code)

\* C21: the detail shown under an expanded row is exactly the entries of
\* inwardEntries, and of issueEntries, whose item code is the row's, in their
\* original order, never an entry of another item; expanding or collapsing a
\* row changes none of stockData, inwardEntries and issueEntries.
C21_ClientSideJoin ==
  [][/\ DetailIsJoin'
     /\ lastAction'.name = "toggleExpand" =>
          UNCHANGED <<stockData, inwardEntries, issueEntries>>]_vars

\* row B is expanded over inward entries B, A, B and shows the first and the
\* third, while the issue entry of item A is not shown
C21_Witness ==
  /\ lastAction.name = "toggleExpand"
  /\ expandedItemCode = "B"
  /\ Len(inwardEntries) = 3 /\ Len(issueEntries) = 1
  /\ \E k \in DOMAIN DetailRows :
       /\ DetailRows[k].itemInwards = <<inwardEntries[1], inwardEntries[3]>>
       /\ DetailRows[k].itemIssues = <<>>

\* C25: loading is true exactly while a run of fetchStock waits for its three
\* requests; Fetch starts a run only while loading is false; the step in
\* which the three requests have all succeeded, or the first one fails, sets
\* loading back to false.
C25_SingleFlight ==
  [][/\ loading' <=> (fetch'.settled = "no")
     /\ fetchCount' # fetchCount => (~loading /\ fetch.settled # "no" /\ loading')
     /\ (fetch.settled = "no" /\ fetch'.settled # "no") => ~loading']_vars

\* a fetch started after an earlier one had ended is rejected while another
\* of its requests is still unanswered, and loading is false again
C25_Witness ==
  /\ lastAction.name = "fetchStockRejected"
  /\ fetchCount >= 2
  /\ \E i \in 1..3 : fetch.state[i] = "pending"
  /\ ~loading

\* C26 (as claimed): the expanded item code is null or the item code of a
\* row of stockData.
C26_ExpandedExists ==
  \/ expandedItemCode = Null
  \/ \E k \in 1..Len(stockData) : stockData[k].item_code = expandedItemCode

\* the dates the page echoes: in the export rows, the two file names and the
\* heading
Echoed ==
  [rows |-> {<<getExportRows[k].StartDate, getExportRows[k].EndDate>> :
               k \in 1..Len(stockData)},
   csv |-> ExportFileName(".csv"),
   xlsx |-> ExportFileName(".xlsx"),
   heading |-> Heading]
\* what is echoed for rows fetched for the range from..to
EchoOf(from, to) ==
  [rows |-> {<<toDDMMYYYY(from), toDDMMYYYY(to)>>},
   csv |-> "stock-statement_" \o from \o "_to_" \o to \o ".csv",
   xlsx |-> "stock-statement_" \o from \o "_to_" \o to \o ".xlsx",
   heading |-> "Stock Statement (Item-wise Summary) - " \o toDDMMYYYY(from)
               \o " to " \o toDDMMYYYY(to)]

\* C27 (as claimed): whenever stockData is non-empty, the dates echoed in the
\* export rows, the file name and the heading are the dates sent in the fetch
\* that produced stockData: they are those dates when the fetch delivers its
\* rows, and they do not change while these rows stay.
C27_RangeOfData ==
  [][/\ (lastAction'.name = "fetchStockResolved" /\ stockData' # <<>>) =>
          Echoed' = EchoOf(fetch'.sent[1].from_date, fetch'.sent[1].to_date)
     /\ (lastAction'.name # "fetchStockResolved"
         /\ stockData # <<>> /\ stockData' # <<>>) =>
          Echoed' = Echoed]_vars
(***************************************************************************)
(* Properties of the batch dialogs: edit marker, closed dialog, creation   *)
(***************************************************************************)
\* the edit marker is null or the index of a staged line
MarkerValid ==
  \/ editingIndex = NullIndex
  \/ /\ editingIndex \in 0..(Len(tempItems) - 1)
     /\ IsLine(tempItems[editingIndex + 1])

\* C22 (as claimed): the edit marker is always null or the index of an
\* existing staged line, the line that was loaded into the form (it follows
\* that line when a line before it is removed); an update never changes the
\* length of the staging list and never overwrites another line.
C22_EditMarkerValid ==
  [][/\ MarkerValid'
     /\ (lastAction'.name = "handleDeleteItem" /\ lastAction'.code = "other"
         /\ editingIndex # NullIndex /\ lastAction'.idx < editingIndex) =>
          editingIndex' = editingIndex - 1
     /\ (lastAction'.name = "handleAddItem" /\ lastAction'.code = "update") =>
          /\ Len(tempItems') = Len(tempItems)
          /\ \A k \in 1..Len(tempItems) :
               k # editingIndex + 1 => tempItems'[k] = tempItems[k]]_vars

\* C23 (as claimed): while the batch dialog is closed the staging list is
\* empty and there is no edit marker, however the dialog was closed.
C23_ClosedHoldsNoDraft ==
  (mounted /\ ~isDialogOpen) =>
    (tempItems = <<>> /\ editingIndex = NullIndex)
\* the history is aligned with the staging list
HistoryAligned ==
  created.track => /\ Len(created.marks) = Len(tempItems)
                   /\ created.live \in 0..Len(runs)

\* C24 (as claimed): over any sequence of Save All invocations each staged
\* line is created by at most one successful POST.
C24_AtMostOnce == \A k \in 1..Len(created.marks) : created.marks[k] <= 1
(***************************************************************************)
(* Properties of the supplier form                                         *)
(***************************************************************************)
\* C28 (as claimed): in every state of the supplier form the state is empty
\* or a state of the selected country and the city is empty or a city of the
\* selected state of the selected country; selecting a country clears state
\* and city, selecting a state clears city; computing the two option lists
\* never fails.
C28_CascadeConsistent ==
  /\ mounted
  /\ ~LookupThrows(formData)
  /\ formData.state = "" \/ formData.state \in getStates(formData)
  /\ formData.city = ""
     \/ \E k \in 1..Len(getCities(formData)) : getCities(formData)[k] = formData.city
  /\ lastAction.name = "setCountry" => (formData.state = "" /\ formData.city = "")
  /\ lastAction.name = "setState" => formData.city = ""
(***************************************************************************)
(* Properties of the layout                                                *)
(***************************************************************************)
\* C29 (as claimed): every navigation entry shown to the user leads to a
\* route that admits the user's role, so following a link of the sidebar is
\* never denied; and every role-restricted route that admits the user's role
\* is linked in the sidebar.
C29_NavAgreesWithRoutes ==
  /\ \A k \in 1..Len(filteredNavItems) :
       Admits(filteredNavItems[k].path, user.role)
  /\ \A path \in RestrictedPaths :
       user.role \in allowedRoles(path) =>
         \E k \in 1..Len(filteredNavItems) : filteredNavItems[k].path = path
  /\ lastAction.name = "navLink" => lastAction.code = "admitted"

\* C30: when POST /auth/logout succeeds the stored token and the stored user
\* are both removed and the app goes to the login page; when it fails the
\* stored token, the stored user and the location are unchanged and the error
\* is reported; no step removes one of the two stored values and keeps the
\* other.
C30_LogoutAllOrNothing ==
  [][/\ lastAction'.name = "logoutResolved" =>
          /\ token' = Null /\ localStorage' = Null
          /\ location'.path = "/"
     /\ lastAction'.name = "logoutRejected" =>
          /\ UNCHANGED <<token, localStorage, location>>
          /\ toast' = "Failed to logout"
     /\ \/ UNCHANGED <<token, localStorage>>
        \/ token' = Null /\ localStorage' = Null]_vars

\* a logout succeeded while token and user were both stored, and a second
\* POST is still unanswered
C30_Witness ==
  /\ lastAction.name = "logoutResolved"
  /\ lastAction.was = "both"
  /\ token = Null /\ localStorage = Null
  /\ location.path = "/"
  /\ logouts = 1
====
